---- MODULE Spec2Model ----
(***************************************************************************)
(* Model of the NaseerAI native text-generation service                    *)
(* (android/app/src/main/cpp): the C facade of model_interface.cpp, the    *)
(* TextGenerator engine, the ModelLoader and the fallback responder.       *)
(*                                                                         *)
(* Conventions                                                             *)
(*  - C++ strings are TLA+ strings; characters are strings of length one.  *)
(*  - Pointers are naturals, 0 is the null pointer.                        *)
(*  - A char* argument or result is <<>> (null) or <<s>> (points to s).    *)
(*  - float values are integers counting hundredths (0.7f is 70); NaN and  *)
(*    the infinities are the sentinels NaN, PosInf, NegInf.                *)
(*    Floats are compared with FLess, FGreater and FEqual, which are       *)
(*    false on a NaN.                                                      *)
(*  - The llama.cpp backend and the file system are the environment: each  *)
(*    call draws what they answer from a bounded set.                      *)
(*  - A failed allocation of the program (std::bad_alloc) is an answer of  *)
(*    the environment too: of make_unique and of the std::string made of  *)
(*    the path in init_model, of the copy of model_path in load_model, of  *)
(*    new char[] in generate_text.  The allocation specification draws     *)
(*    them; the other specifications run with allocations that succeed.    *)
(***************************************************************************)
EXTENDS Integers, Sequences, FiniteSets, TLC

VARIABLES
    g_model,        \* model_interface.cpp:8  address of the engine, 0 = nullptr
    objs,           \* the TextGenerator objects on the heap, by address
    live_models,    \* llama_model handles the backend has allocated and not freed
    live_contexts,  \* llama_context handles allocated and not freed
    misuse,         \* native handles freed twice or used after free
    events,         \* what the last call did to the heap and the backend, in order
    last,           \* the last facade call: operation, arguments, result
    init_hist,      \* <<>> or <<[path, ret]>>: the init_model call that made the engine
    crashed,        \* the process died (undefined behaviour took the fatal outcome)
    tokenizer       \* tokenizer.h:21  m_vocabulary of the Tokenizer object

vars == <<g_model, objs, live_models, live_contexts, misuse, events, last,
          init_hist, crashed, tokenizer>>

NULL == 0
None == << >>
Some(x) == <<x>>

----------------------------------------------------------------------------
(* Strings                                                                 *)

Min(a, b) == IF a < b THEN a ELSE b
Max(a, b) == IF a < b THEN b ELSE a

CharAt(s, i) == SubSeq(s, i, i)

Upper == "ABCDEFGHIJKLMNOPQRSTUVWXYZ"
Lower == "abcdefghijklmnopqrstuvwxyz"

\* the table of ::tolower in the C locale
ToLowerTable ==
    [c \in {CharAt(Upper, i) : i \in 1..26} |->
        CharAt(Lower, CHOOSE i \in 1..26 : CharAt(Upper, i) = c)]

\* ::tolower on one character
tolower(c) == IF c \in DOMAIN ToLowerTable THEN ToLowerTable[c] ELSE c

RECURSIVE ToLowerStr(_)
\* std::transform(s.begin(), s.end(), s.begin(), ::tolower)
ToLowerStr(s) ==
    IF Len(s) = 0 THEN ""
    ELSE tolower(CharAt(s, 1)) \o ToLowerStr(SubSeq(s, 2, Len(s)))

\* std::string::npos
npos == -1

\* std::string::find(needle): 0-based position of the first occurrence, or npos
Find(s, needle) ==
    LET hits == { i \in 1..(Len(s) - Len(needle) + 1) :
                    SubSeq(s, i, i + Len(needle) - 1) = needle }
    IN  IF hits = {} THEN npos
        ELSE (CHOOSE i \in hits : \A j \in hits : i <= j) - 1

\* std::string::find_last_of(c): 0-based position of the last occurrence, or npos
find_last_of(s, c) ==
    LET hits == { i \in 1..Len(s) : CharAt(s, i) = c }
    IN  IF hits = {} THEN npos
        ELSE (CHOOSE i \in hits : \A j \in hits : j <= i) - 1

\* std::string::substr(pos): from 0-based pos to the end
substr(s, pos) == SubSeq(s, pos + 1, Len(s))

\* std::string::substr(pos, n)
substr2(s, pos, n) == SubSeq(s, pos + 1, Min(Len(s), pos + n))

----------------------------------------------------------------------------
(* The native backend (llama.cpp) and the heap, as the code uses them.     *)
(* h is the native state threaded through one facade call:                  *)
(* [models, contexts, misuse, events].                                      *)

Ev(name, arg) == [ev |-> name, arg |-> arg]

Log(h, name, arg) == [h EXCEPT !.events = Append(@, Ev(name, arg))]

\* the address the allocator hands out: the lowest one not in use
FreshHandle(h) ==
    CHOOSE n \in 1..(Cardinality(h.models \cup h.contexts) + 1) :
        /\ n \notin (h.models \cup h.contexts)
        /\ \A m \in 1..(n - 1) : m \in (h.models \cup h.contexts)

\* llama_backend_init()
llama_backend_init(h) == Log(h, "llama_backend_init", NULL)

\* llama_backend_free()
llama_backend_free(h) == Log(h, "llama_backend_free", NULL)

\* llama_model_load_from_file: a new model handle, or null
llama_model_load_from_file(h, gives_model) ==
    IF gives_model
    THEN LET m == FreshHandle(h)
         IN  [h |-> Log([h EXCEPT !.models = @ \cup {m}],
                        "llama_model_load_from_file", m),
              model |-> m]
    ELSE [h |-> Log(h, "llama_model_load_from_file", NULL), model |-> NULL]

\* llama_model_free(model)
llama_model_free(h, m) ==
    Log([h EXCEPT !.models = @ \ {m},
                  !.misuse = IF m \in h.models THEN @ ELSE @ \cup {m}],
        "llama_model_free", m)

\* llama_free(ctx)
llama_free(h, c) ==
    Log([h EXCEPT !.contexts = @ \ {c},
                  !.misuse = IF c \in h.contexts THEN @ ELSE @ \cup {c}],
        "llama_free", c)

\* llama_init_from_model(model, params): a new context handle, or null
llama_init_from_model(h, m, gives_ctx) ==
    LET h0 == [h EXCEPT !.misuse = IF m \in h.models THEN @ ELSE @ \cup {m}]
    IN  IF gives_ctx
        THEN LET c == FreshHandle(h0)
             IN  [h |-> Log([h0 EXCEPT !.contexts = @ \cup {c}],
                            "llama_init_from_model", c),
                  ctx |-> c]
        ELSE [h |-> Log(h0, "llama_init_from_model", NULL), ctx |-> NULL]

----------------------------------------------------------------------------
(* model_loader.h / model_loader.cpp                                       *)

\* struct ModelData, default member initializers (weights and vocabulary
\* are never written by any code path and are left out)
ModelData ==
    [vocab_size |-> 0, hidden_size |-> 0, num_layers |-> 0,
     use_pattern_fallback |-> TRUE,
     llama_model |-> NULL, llama_context |-> NULL, model_path |-> ""]

\* ModelData::~ModelData(): context first, then model
ModelData_dtor(h, d) ==
    LET h1 == IF d.llama_context # NULL THEN llama_free(h, d.llama_context) ELSE h
    IN  IF d.llama_model # NULL THEN llama_model_free(h1, d.llama_model) ELSE h1

\* get_file_extension without the lower-casing
get_file_extension_case_sensitive(file_path) ==
    LET dot_pos == find_last_of(file_path, ".")
    IN  IF dot_pos # npos THEN substr(file_path, dot_pos) ELSE ""

\* ModelLoader::get_file_extension
get_file_extension(file_path) ==
    LET dot_pos == find_last_of(file_path, ".")
    IN  IF dot_pos # npos THEN ToLowerStr(substr(file_path, dot_pos)) ELSE ""

\* ModelLoader::is_supported_format
is_supported_format(file_path) ==
    LET extension == get_file_extension(file_path)
    IN  \/ extension = ".gguf"
        \/ extension = ".safetensors"
        \/ extension = ".bin"
        \/ extension = ".pt"
        \/ extension = ".pth"

(* What the file system and the backend answer during one load.            *)
(*   missing       the file cannot be opened                                *)
(*   short_small   fewer than 8 bytes: header_length is read uninitialized  *)
(*   short_huge      and is a small value, or one the allocation rejects    *)
(*   huge_header   the header length exceeds what std::string can hold      *)
(*   good          a well-formed file                                       *)
(*   backend_throw the backend raises a std::exception while loading        *)
(*   metadata_throw the backend gives a model and a std::exception is       *)
(*                 raised while its metadata is read                        *)
(*   escape_throw  a std::exception leaves ModelLoader::load_from_file      *)
Envs == {"missing", "short_small", "short_huge", "huge_header", "good",
         "backend_throw", "metadata_throw", "escape_throw"}

(* Allocations of the program that fail during one init_model, on a        *)
(* well-formed file and a backend that gives a model.                       *)
(*   engine_throw     std::make_unique<TextGenerator>() raises              *)
(*                    std::bad_alloc (model_interface.cpp:18)               *)
(*   arg_copy_throw   the std::string made of the char* argument of        *)
(*                    load_model raises std::bad_alloc                      *)
(*                    (model_interface.cpp:19)                              *)
(*   path_copy_throw  the copy of model_path into the engine raises         *)
(*                    std::bad_alloc (text_generator.cpp:59)                *)
AllocFailures == {"engine_throw", "arg_copy_throw", "path_copy_throw"}

\* a std::string allocates for a text that does not fit the buffer inside
\* the string object (15 characters in libstdc++, 22 in libc++)
CopyAllocates(str) == Len(str) > 15

FileOpens(env) == env # "missing"
HeaderThrows(env) == env \in {"short_huge", "huge_header"}

\* Results of the loader functions: [ok, data, h]
LoadResult(ok, data, h) == [ok |-> ok, data |-> data, h |-> h]

\* size of the vocabulary of the backend's model
NVocab == 4

\* llama_vocab_n_tokens(vocab): read by load_gguf (model_loader.cpp:73) and
\* by sample_token (text_generator.cpp:179)
llama_vocab_n_tokens == NVocab

\* ModelLoader::load_gguf
load_gguf(h, file_path, data, env) ==
    LET h1 == llama_backend_init(h)
    IN  IF env = "backend_throw"
        THEN LoadResult(FALSE, data, llama_backend_free(h1))
        ELSE LET r == llama_model_load_from_file(
                          h1, env \in {"good", "metadata_throw"})
             IN  IF r.model = NULL
                 THEN LoadResult(FALSE, data, llama_backend_free(r.h))
                 ELSE IF env = "metadata_throw"
                 THEN \* catch (const std::exception&) after data.llama_model
                      \* was set: the temporary keeps the model
                      LoadResult(FALSE, [data EXCEPT !.llama_model = r.model],
                                 llama_backend_free(r.h))
                 ELSE LoadResult(TRUE,
                        [data EXCEPT !.llama_model = r.model,
                                     !.vocab_size = llama_vocab_n_tokens,
                                     !.hidden_size = 8,
                                     !.num_layers = 2,
                                     !.use_pattern_fallback = FALSE,
                                     !.model_path = file_path],
                        r.h)

\* ModelLoader::load_safetensors
load_safetensors(h, file_path, data, env) ==
    IF ~FileOpens(env) THEN LoadResult(FALSE, data, h)
    ELSE IF HeaderThrows(env) THEN LoadResult(FALSE, data, h)
    ELSE LoadResult(TRUE,
            [data EXCEPT !.vocab_size = 50257,
                         !.hidden_size = 2048,
                         !.num_layers = 24,
                         !.use_pattern_fallback = FALSE],
            h)

\* ModelLoader::load_pytorch
load_pytorch(h, file_path, data, env) ==
    IF ~FileOpens(env) THEN LoadResult(FALSE, data, h)
    ELSE LoadResult(TRUE,
            [data EXCEPT !.vocab_size = 51200,
                         !.hidden_size = 2560,
                         !.num_layers = 32,
                         !.use_pattern_fallback = FALSE],
            h)

\* ModelLoader::load_from_file
load_from_file(h, file_path, data, env) ==
    IF ~is_supported_format(file_path) THEN LoadResult(FALSE, data, h)
    ELSE LET extension == get_file_extension(file_path)
         IN  IF extension = ".gguf" THEN load_gguf(h, file_path, data, env)
             ELSE IF extension = ".safetensors"
                  THEN load_safetensors(h, file_path, data, env)
             ELSE IF extension \in {".bin", ".pt", ".pth"}
                  THEN load_pytorch(h, file_path, data, env)
             ELSE LoadResult(FALSE, data, h)

----------------------------------------------------------------------------
(* float arithmetic as the setters use it                                  *)

NaN == 999999
PosInf == 100000
NegInf == -100000

\* operator< on float: false whenever an operand is NaN
FLess(a, b) == a # NaN /\ b # NaN /\ a < b

\* operator> on float
FGreater(a, b) == FLess(b, a)

\* operator== on float: false whenever an operand is NaN
FEqual(a, b) == a # NaN /\ b # NaN /\ a = b

\* std::min(a, b): (b < a) ? b : a
StdMin(a, b) == IF FLess(b, a) THEN b ELSE a

\* std::max(a, b): (a < b) ? b : a
StdMax(a, b) == IF FLess(a, b) THEN b ELSE a

----------------------------------------------------------------------------
(* text_generator.h / text_generator.cpp: construction, load, setters      *)

\* struct TextGenerator::ModelData, default member initializers
TG_ModelData ==
    [vocab_size |-> 0, hidden_size |-> 0, num_layers |-> 0,
     use_pattern_fallback |-> TRUE,
     llama_model |-> NULL, llama_context |-> NULL, model_path |-> ""]

\* a destructor that frees the model before the context
TG_ModelData_dtor_model_first(h, d) ==
    LET h1 == IF d.llama_model # NULL THEN llama_model_free(h, d.llama_model) ELSE h
    IN  IF d.llama_context # NULL THEN llama_free(h1, d.llama_context) ELSE h1

\* TextGenerator::ModelData::~ModelData(): context first, then model
TG_ModelData_dtor(h, d) ==
    LET h1 == IF d.llama_context # NULL THEN llama_free(h, d.llama_context) ELSE h
    IN  IF d.llama_model # NULL THEN llama_model_free(h1, d.llama_model) ELSE h1

\* a constructor with another default temperature
TextGenerator_ctor_other_default ==
    [m_data |-> TG_ModelData, m_loaded |-> FALSE,
     m_temperature |-> 100, m_top_k |-> 40, m_top_p |-> 95]

\* TextGenerator::TextGenerator() with the default member initializers
TextGenerator_ctor ==
    [m_data |-> TG_ModelData, m_loaded |-> FALSE,
     m_temperature |-> 70, m_top_k |-> 40, m_top_p |-> 95]

\* TextGenerator::~TextGenerator() = default: destroys m_data
TextGenerator_dtor(h, tg) == TG_ModelData_dtor(h, tg.m_data)

\* load_model that reports a failed load to its caller
load_model_propagates(h, tg, model_path, env) ==
    LET model_data == ModelData
    IN  IF env = "escape_throw"
        THEN [tg |-> tg, h |-> ModelData_dtor(h, model_data), ret |-> FALSE]
        ELSE LET r == load_from_file(h, model_path, model_data, env)
             IN  IF r.ok
                 THEN [tg |-> [tg EXCEPT
                                !.m_data.vocab_size = r.data.vocab_size,
                                !.m_data.hidden_size = r.data.hidden_size,
                                !.m_data.num_layers = r.data.num_layers,
                                !.m_data.use_pattern_fallback =
                                    r.data.use_pattern_fallback,
                                !.m_data.llama_model = r.data.llama_model,
                                !.m_data.llama_context = r.data.llama_context,
                                !.m_data.model_path = r.data.model_path,
                                !.m_loaded = TRUE],
                       h |-> ModelData_dtor(r.h, [r.data EXCEPT
                                                   !.llama_model = NULL,
                                                   !.llama_context = NULL]),
                       ret |-> TRUE]
                 ELSE [tg |-> tg, h |-> ModelData_dtor(r.h, r.data),
                       ret |-> FALSE]

\* TextGenerator::load_model from line 49 on, r being what load_from_file
\* returned and left in the temporary model_data
load_model_copy(tg, env, r) ==
    IF r.ok /\ env = "path_copy_throw" /\ CopyAllocates(r.data.model_path)
    THEN \* lines 51-58 have run, line 59 throws: the temporary, which still
         \* holds the handles the engine was given, is unwound, then
         \* catch (const std::exception&)
         [tg |-> [tg EXCEPT
                   !.m_data.vocab_size = r.data.vocab_size,
                   !.m_data.hidden_size = r.data.hidden_size,
                   !.m_data.num_layers = r.data.num_layers,
                   !.m_data.use_pattern_fallback = TRUE,
                   !.m_data.llama_model = r.data.llama_model,
                   !.m_data.llama_context = r.data.llama_context,
                   !.m_loaded = TRUE],
          h |-> ModelData_dtor(Log(r.h, "bad_alloc", NULL), r.data),
          ret |-> TRUE]
    ELSE IF r.ok
    THEN [tg |-> [tg EXCEPT
                   !.m_data.vocab_size = r.data.vocab_size,
                   !.m_data.hidden_size = r.data.hidden_size,
                   !.m_data.num_layers = r.data.num_layers,
                   !.m_data.use_pattern_fallback = r.data.use_pattern_fallback,
                   !.m_data.llama_model = r.data.llama_model,
                   !.m_data.llama_context = r.data.llama_context,
                   !.m_data.model_path = r.data.model_path,
                   !.m_loaded = TRUE],
          h |-> ModelData_dtor(r.h, [r.data EXCEPT !.llama_model = NULL,
                                                   !.llama_context = NULL]),
          ret |-> TRUE]
    ELSE [tg |-> [tg EXCEPT !.m_data.use_pattern_fallback = TRUE,
                            !.m_loaded = TRUE],
          h |-> ModelData_dtor(r.h, r.data),
          ret |-> TRUE]

\* TextGenerator::load_model: [tg, h, ret]
load_model(h, tg, model_path, env) ==
    IF env = "escape_throw"
    THEN \* catch (const std::exception&): the temporary is unwound first
         [tg |-> [tg EXCEPT !.m_data.use_pattern_fallback = TRUE,
                            !.m_loaded = TRUE],
          h |-> ModelData_dtor(h, ModelData),
          ret |-> TRUE]
    ELSE \* a failed allocation happens on a file that loads
         load_model_copy(tg, env,
                         load_from_file(h, model_path, ModelData,
                                        IF env \in AllocFailures THEN "good"
                                        ELSE env))

\* TextGenerator::is_loaded
is_loaded(tg) == tg.m_loaded

\* set_temperature without the lower bound
TG_set_temperature_no_floor(tg, temperature) ==
    [tg EXCEPT !.m_temperature = StdMin(200, temperature)]

\* TextGenerator::set_temperature
TG_set_temperature(tg, temperature) ==
    [tg EXCEPT !.m_temperature = StdMax(10, StdMin(200, temperature))]

\* TextGenerator::set_top_k
TG_set_top_k(tg, top_k) ==
    [tg EXCEPT !.m_top_k = Max(1, Min(100, top_k))]

\* TextGenerator::set_top_p
TG_set_top_p(tg, top_p) ==
    [tg EXCEPT !.m_top_p = StdMax(10, StdMin(100, top_p))]

----------------------------------------------------------------------------
(* text_generator.cpp: the fallback responder                               *)
(* The canned responses are the literals of the source; the bullet          *)
(* character U+2022 is written \u2022.                                      *)

\* text_generator.cpp:203
EmergencyResponse ==
    "I understand this may be an emergency situation. For immediate safety:\n\n1. Move to the safest available location\n2. Stay low if there's debris or smoke\n3. Check for injuries and provide basic first aid\n4. Signal for help if possible\n5. Conserve water, food, and battery power\n\nWhat specific emergency assistance do you need?"

\* text_generator.cpp:209
WaterResponse ==
    "Water purification methods using available materials:\n\n**Immediate options:**\n\\u2022 Boiling: Use any heat source for 1-3 minutes\n\\u2022 Solar disinfection: Clear bottles in direct sunlight for 6+ hours\n\\u2022 Sand filtration: Layer fine sand, gravel, cloth in container\n\n**Materials needed:**\n\\u2022 Cloth or fabric for initial filtering\n\\u2022 Sand and gravel (if available)\n\\u2022 Clear containers or bottles\n\\u2022 Heat source (wood, solar cooker)\n\nThese methods remove most harmful bacteria and particles. Always use the clearest water source available as starting point."

\* text_generator.cpp:216
FirstAidResponse ==
    "Basic first aid using available materials:\n\n**For wounds:**\n\\u2022 Clean cloth or fabric for bandages\n\\u2022 Clean water for washing\n\\u2022 Apply direct pressure to stop bleeding\n\\u2022 Elevate injured area if possible\n\n**For burns:**\n\\u2022 Cool running water or clean wet cloth\n\\u2022 Avoid ice or very cold water\n\\u2022 Cover with clean, dry cloth\n\n**Important:** These are emergency measures. Seek professional medical help when possible."

\* text_generator.cpp:222
ShelterResponse ==
    "Creating protective shelter with available materials:\n\n**Basic structure:**\n\\u2022 Use walls, debris, or natural features\n\\u2022 Create windbreaks with fabric, tarps, or boards\n\\u2022 Insulate from ground with blankets, cardboard, or clothing\n\n**For weather protection:**\n\\u2022 Slope roof materials to shed water\n\\u2022 Block wind from dominant direction\n\\u2022 Create small, enclosed space to retain body heat\n\n**Safety priorities:**\n\\u2022 Avoid unstable structures\n\\u2022 Ensure ventilation\n\\u2022 Have clear exit routes"

\* text_generator.cpp:229
CommunicationResponse ==
    "Communication methods when networks are down:\n\n**Visual signals:**\n\\u2022 Mirrors or reflective surfaces for sunlight signals\n\\u2022 Bright cloth or clothing as markers\n\\u2022 Smoke signals (safely controlled fires)\n\n**Audio signals:**\n\\u2022 Whistles, horns, or loud objects\n\\u2022 Rhythmic patterns (3 blasts = distress)\n\\u2022 Shouting at regular intervals\n\n**Written messages:**\n\\u2022 Leave notes in visible locations\n\\u2022 Use improvised writing materials\n\\u2022 Include date, time, direction of travel"

\* text_generator.cpp:235
GreetingResponse ==
    "Hello! I'm NaseerAI, running locally on your device. I'm designed to provide assistance even without internet connectivity. How can I help you today?"

\* text_generator.cpp:239
HowAreYouResponse ==
    "I'm functioning well and ready to assist you. As a local AI model, I can help with information, problem-solving, and guidance even when you're offline. What do you need help with?"

\* text_generator.cpp:243
WhatAiResponse ==
    "I'm an AI assistant running locally on your device using a lightweight language model. I can help with explanations, problem-solving, emergency guidance, and general questions without requiring an internet connection."

\* text_generator.cpp:249
ProgrammingResponse ==
    "I can help with programming concepts and coding questions. What specific programming language or problem are you working with? I can explain concepts, help debug issues, or suggest approaches."

\* text_generator.cpp:264
DefaultResponse ==
    "I'm here to help with a wide range of topics including emergency guidance, technical questions, explanations, and problem-solving. I work completely offline, so you can rely on me even without internet access. What specific information or assistance do you need?"

INT_MAX == 2147483647
INT_MIN == -2147483647 - 1

Digits == "0123456789"
DigitTable == [c \in {CharAt(Digits, i) : i \in 1..10} |->
                 (CHOOSE i \in 1..10 : CharAt(Digits, i) = c) - 1]
IsDigit(c) == c \in DOMAIN DigitTable
DigitVal(c) == DigitTable[c]

\* isspace in the C locale
\* (space, \t, \n, the vertical tab 0x0B, \f, \r)
IsSpace(c) == c \in {" ", "\t", "\n", "", "\f", "\r"}

RECURSIVE SkipSpace(_, _)
SkipSpace(s, i) ==
    IF i <= Len(s) /\ IsSpace(CharAt(s, i)) THEN SkipSpace(s, i + 1) ELSE i

RECURSIVE DigitRun(_, _)
\* number of consecutive decimal digits of s from position i
DigitRun(s, i) ==
    IF i <= Len(s) /\ IsDigit(CharAt(s, i)) THEN 1 + DigitRun(s, i + 1) ELSE 0

RECURSIVE NegAccum(_, _, _, _)
\* strtol's accumulation, kept negative so that INT_MIN is representable;
\* the result 1 stands for "out of the range of int"
NegAccum(s, i, n, acc) ==
    IF n = 0 THEN acc
    ELSE LET d == DigitVal(CharAt(s, i))
         IN  IF acc < -214748364 \/ (acc = -214748364 /\ d > 8) THEN 1
             ELSE NegAccum(s, i + 1, n - 1, acc * 10 - d)

\* std::stoi(s): [ok, val]; ok = FALSE stands for std::invalid_argument
\* (no digits) or std::out_of_range
stoi(s) ==
    LET i0   == SkipSpace(s, 1)
        sign == IF i0 <= Len(s) /\ CharAt(s, i0) \in {"+", "-"}
                THEN CharAt(s, i0) ELSE ""
        i1   == IF sign = "" THEN i0 ELSE i0 + 1
        n    == DigitRun(s, i1)
        neg  == NegAccum(s, i1, n, 0)
    IN  IF n = 0 THEN [ok |-> FALSE, val |-> 0]
        ELSE IF neg = 1 THEN [ok |-> FALSE, val |-> 0]
        ELSE IF sign = "-" THEN [ok |-> TRUE, val |-> neg]
        ELSE IF neg = INT_MIN THEN [ok |-> FALSE, val |-> 0]
        ELSE [ok |-> TRUE, val |-> -neg]

\* int + int; signed overflow is undefined, the two's complement wrap is
\* what the builds produce
IntAdd(a, b) ==
    IF a > 0 /\ b > 0 /\ a > INT_MAX - b
    THEN (a - INT_MAX - 1) + (b - INT_MAX - 1)
    ELSE IF a < 0 /\ b < 0 /\ a < INT_MIN - b
    THEN (a + INT_MAX + 1) + (b + INT_MAX + 1)
    ELSE a + b

\* int - int, likewise
IntSub(a, b) ==
    IF b = INT_MIN
    THEN (IF a >= 0 THEN a + INT_MIN ELSE (a + INT_MAX) + 1)
    ELSE IntAdd(a, -b)

RECURSIVE NegDigits(_)
\* decimal digits of |m| for m <= 0
NegDigits(m) ==
    IF m > -10 THEN CharAt(Digits, 1 - m)
    ELSE LET d == (10 - (m % 10)) % 10
         IN  NegDigits((m + d) \div 10) \o CharAt(Digits, d + 1)

\* std::to_string(int)
to_string(n) == IF n < 0 THEN "-" \o NegDigits(n) ELSE NegDigits(-n)

RECURSIVE RemoveChar(_, _)
\* s.erase(std::remove(s.begin(), s.end(), c), s.end())
RemoveChar(s, c) ==
    IF Len(s) = 0 THEN ""
    ELSE (IF CharAt(s, 1) = c THEN "" ELSE CharAt(s, 1))
         \o RemoveChar(SubSeq(s, 2, Len(s)), c)

\* TextGenerator::handle_basic_math
handle_basic_math(expression) ==
    LET clean_expr == RemoveChar(expression, " ")
        plus_pos   == Find(clean_expr, "+")
        minus_pos  == Find(clean_expr, "-")
    IN  IF plus_pos # npos
        THEN LET a == stoi(substr2(clean_expr, 0, plus_pos))
                 b == stoi(substr(clean_expr, plus_pos + 1))
             IN  IF a.ok /\ b.ok THEN to_string(IntAdd(a.val, b.val)) ELSE ""
        ELSE IF minus_pos # npos /\ minus_pos > 0
        THEN LET a == stoi(substr2(clean_expr, 0, minus_pos))
                 b == stoi(substr(clean_expr, minus_pos + 1))
             IN  IF a.ok /\ b.ok THEN to_string(IntSub(a.val, b.val)) ELSE ""
        ELSE ""

Has(s, kw) == Find(s, kw) # npos

\* generate_pattern_response that returns whatever the arithmetic handler gave
generate_pattern_response_unchecked_math(prompt) ==
    LET lower_prompt == ToLowerStr(prompt)
        math_result  == handle_basic_math(prompt)
    IN  IF Has(lower_prompt, "emergency") \/ Has(lower_prompt, "danger")
           \/ Has(lower_prompt, "help")
        THEN EmergencyResponse
        ELSE IF Has(lower_prompt, "water")
                /\ (Has(lower_prompt, "clean") \/ Has(lower_prompt, "purify"))
        THEN WaterResponse
        ELSE IF Has(lower_prompt, "medical") \/ Has(lower_prompt, "injury")
                \/ Has(lower_prompt, "first aid")
        THEN FirstAidResponse
        ELSE IF Has(lower_prompt, "shelter") \/ Has(lower_prompt, "protection")
        THEN ShelterResponse
        ELSE IF Has(lower_prompt, "communication") \/ Has(lower_prompt, "signal")
                \/ Has(lower_prompt, "contact")
        THEN CommunicationResponse
        ELSE IF Has(lower_prompt, "hello") \/ Has(lower_prompt, "hi")
        THEN GreetingResponse
        ELSE IF Has(lower_prompt, "how are you")
        THEN HowAreYouResponse
        ELSE IF Has(lower_prompt, "what") /\ Has(lower_prompt, "ai")
        THEN WhatAiResponse
        ELSE IF Has(lower_prompt, "programming") \/ Has(lower_prompt, "code")
        THEN ProgrammingResponse
        ELSE IF Has(lower_prompt, "+") \/ Has(lower_prompt, "-")
                \/ Has(lower_prompt, "calculate")
        THEN math_result
        ELSE DefaultResponse

\* generate_pattern_response that tests the water rule first
generate_pattern_response_water_first(prompt) ==
    LET lower_prompt == ToLowerStr(prompt)
        math_result  == handle_basic_math(prompt)
    IN  IF Has(lower_prompt, "water")
           /\ (Has(lower_prompt, "clean") \/ Has(lower_prompt, "purify"))
        THEN WaterResponse
        ELSE IF Has(lower_prompt, "emergency") \/ Has(lower_prompt, "danger")
                \/ Has(lower_prompt, "help")
        THEN EmergencyResponse
        ELSE IF Has(lower_prompt, "medical") \/ Has(lower_prompt, "injury")
                \/ Has(lower_prompt, "first aid")
        THEN FirstAidResponse
        ELSE IF Has(lower_prompt, "shelter") \/ Has(lower_prompt, "protection")
        THEN ShelterResponse
        ELSE IF Has(lower_prompt, "communication") \/ Has(lower_prompt, "signal")
                \/ Has(lower_prompt, "contact")
        THEN CommunicationResponse
        ELSE IF Has(lower_prompt, "hello") \/ Has(lower_prompt, "hi")
        THEN GreetingResponse
        ELSE IF Has(lower_prompt, "how are you")
        THEN HowAreYouResponse
        ELSE IF Has(lower_prompt, "what") /\ Has(lower_prompt, "ai")
        THEN WhatAiResponse
        ELSE IF Has(lower_prompt, "programming") \/ Has(lower_prompt, "code")
        THEN ProgrammingResponse
        ELSE IF (Has(lower_prompt, "+") \/ Has(lower_prompt, "-")
                 \/ Has(lower_prompt, "calculate"))
                /\ math_result # ""
        THEN math_result
        ELSE DefaultResponse

\* a responder whose water and capability rules match on any one keyword
generate_pattern_response_any_keyword(prompt) ==
    LET lower_prompt == ToLowerStr(prompt)
        math_result  == handle_basic_math(prompt)
    IN  IF Has(lower_prompt, "emergency") \/ Has(lower_prompt, "danger")
           \/ Has(lower_prompt, "help")
        THEN EmergencyResponse
        ELSE IF Has(lower_prompt, "water") \/ Has(lower_prompt, "clean")
                \/ Has(lower_prompt, "purify")
        THEN WaterResponse
        ELSE IF Has(lower_prompt, "medical") \/ Has(lower_prompt, "injury")
                \/ Has(lower_prompt, "first aid")
        THEN FirstAidResponse
        ELSE IF Has(lower_prompt, "shelter") \/ Has(lower_prompt, "protection")
        THEN ShelterResponse
        ELSE IF Has(lower_prompt, "communication") \/ Has(lower_prompt, "signal")
                \/ Has(lower_prompt, "contact")
        THEN CommunicationResponse
        ELSE IF Has(lower_prompt, "hello") \/ Has(lower_prompt, "hi")
        THEN GreetingResponse
        ELSE IF Has(lower_prompt, "how are you")
        THEN HowAreYouResponse
        ELSE IF Has(lower_prompt, "what") \/ Has(lower_prompt, "ai")
        THEN WhatAiResponse
        ELSE IF Has(lower_prompt, "programming") \/ Has(lower_prompt, "code")
        THEN ProgrammingResponse
        ELSE IF (Has(lower_prompt, "+") \/ Has(lower_prompt, "-")
                 \/ Has(lower_prompt, "calculate"))
                /\ math_result # ""
        THEN math_result
        ELSE DefaultResponse

\* TextGenerator::generate_pattern_response
generate_pattern_response(prompt) ==
    LET lower_prompt == ToLowerStr(prompt)
        math_result  == handle_basic_math(prompt)
    IN  IF Has(lower_prompt, "emergency") \/ Has(lower_prompt, "danger")
           \/ Has(lower_prompt, "help")
        THEN EmergencyResponse
        ELSE IF Has(lower_prompt, "water")
                /\ (Has(lower_prompt, "clean") \/ Has(lower_prompt, "purify"))
        THEN WaterResponse
        ELSE IF Has(lower_prompt, "medical") \/ Has(lower_prompt, "injury")
                \/ Has(lower_prompt, "first aid")
        THEN FirstAidResponse
        ELSE IF Has(lower_prompt, "shelter") \/ Has(lower_prompt, "protection")
        THEN ShelterResponse
        ELSE IF Has(lower_prompt, "communication") \/ Has(lower_prompt, "signal")
                \/ Has(lower_prompt, "contact")
        THEN CommunicationResponse
        ELSE IF Has(lower_prompt, "hello") \/ Has(lower_prompt, "hi")
        THEN GreetingResponse
        ELSE IF Has(lower_prompt, "how are you")
        THEN HowAreYouResponse
        ELSE IF Has(lower_prompt, "what") /\ Has(lower_prompt, "ai")
        THEN WhatAiResponse
        ELSE IF Has(lower_prompt, "programming") \/ Has(lower_prompt, "code")
        THEN ProgrammingResponse
        ELSE IF (Has(lower_prompt, "+") \/ Has(lower_prompt, "-")
                 \/ Has(lower_prompt, "calculate"))
                /\ math_result # ""
        THEN math_result
        ELSE DefaultResponse

----------------------------------------------------------------------------
(* text_generator.cpp: generation                                           *)

\* llama_vocab_eos(vocab): the last token of the vocabulary
llama_vocab_eos == NVocab - 1

\* the text the vocabulary holds for the end-of-sequence token
EosPiece == "z"

\* llama_token_to_piece: the text of a token and its length; every third
\* token is a control token without text (length 0)
llama_token_to_piece(t) ==
    IF t = llama_vocab_eos THEN EosPiece
    ELSE IF t % 3 = 2 THEN ""
    ELSE CharAt(Lower, (t % 3) + 1)

RECURSIVE SampleLoop(_, _, _, _)
\* the for loop of sample_token; logits[i] is the element i + 1 of the tuple
SampleLoop(logits, i, max_token, max_logit) ==
    IF i < llama_vocab_n_tokens
    THEN IF FGreater(logits[i + 1], max_logit)
         THEN SampleLoop(logits, i + 1, i, logits[i + 1])
         ELSE SampleLoop(logits, i + 1, max_token, max_logit)
    ELSE max_token

\* sampling that looks at the first m_top_k logits only
sample_token_top_k(tg, logits) ==
    LET RECURSIVE Loop(_, _, _)
        Loop(i, max_token, max_logit) ==
            IF i < Min(llama_vocab_n_tokens, tg.m_top_k)
            THEN IF FGreater(logits[i + 1], max_logit)
                 THEN Loop(i + 1, i, logits[i + 1])
                 ELSE Loop(i + 1, max_token, max_logit)
            ELSE max_token
    IN  Loop(1, 0, logits[1])

\* TextGenerator::sample_token of engine tg, on the logits
\* llama_get_logits_ith returns; m_temperature, m_top_k and m_top_p of tg are
\* not read
sample_token(tg, logits) == SampleLoop(logits, 1, 0, logits[1])

(* Each backend call is logged with the value it returns: the context of   *)
(* llama_init_from_model, the token count of llama_tokenize (negative when  *)
(* the buffer is too small), the status of llama_decode of the prompt.      *)
(* What the backend answers during one generate call:                      *)
(*   ctx_ok     llama_init_from_model returns a context                     *)
(*   tok        llama_tokenize: "ok", "retry_ok" (negative, then fits),     *)
(*              "fail" (negative twice), "throw" (the buffer resize raises) *)
(*   pdec_ok    llama_decode of the prompt returns 0                        *)
(*   steps      per loop iteration: the logits, and whether llama_decode of *)
(*              the new token returns 0                                     *)
(* A llama_decode of a new token that returns nonzero is logged once more   *)
(* as llama_decode_failed.                                                  *)
Script(ctx_ok, tok, pdec_ok, steps) ==
    [ctx_ok |-> ctx_ok, tok |-> tok, pdec_ok |-> pdec_ok, steps |-> steps]

\* Result of generate and generate_with_llama: [tg, h, ret, thrown]
GenResult(tg, h, ret, thrown) ==
    [tg |-> tg, h |-> h, ret |-> ret, thrown |-> thrown]

\* the backend's answer to iteration i of the loop; a loop that runs past the
\* answers of the script meets a token with text and a decode that succeeds
StepAt(steps, i) ==
    IF i \in DOMAIN steps THEN steps[i]
    ELSE [logits |-> [k \in 1..NVocab |-> IF k = 1 THEN 1 ELSE 0],
          decode_ok |-> TRUE]

RECURSIVE GenLoop_off_by_one(_, _, _, _, _, _)
\* the loop with the test n_generated <= max_tokens
GenLoop_off_by_one(h, tg, steps, n_generated, max_tokens, response) ==
    IF n_generated <= max_tokens
    THEN LET st         == StepAt(steps, n_generated + 1)
             next_token == sample_token(tg, st.logits)
             h1         == Log(h, "sample_token", next_token)
             piece      == llama_token_to_piece(next_token)
             response1  == IF Len(piece) > 0 THEN response \o piece ELSE response
             h2         == Log(h1, "llama_decode", next_token)
             h3         == Log(h2, "llama_decode_failed", next_token)
         IN  IF next_token = llama_vocab_eos
             THEN [h |-> h1, response |-> response]
             ELSE IF ~st.decode_ok
             THEN [h |-> h3, response |-> response1]
             ELSE GenLoop_off_by_one(h2, tg, steps, n_generated + 1, max_tokens,
                                     response1)
    ELSE [h |-> h, response |-> response]

RECURSIVE GenLoop_eos_late(_, _, _, _, _, _)
\* the loop with the end-of-sequence test after the append and the decode
GenLoop_eos_late(h, tg, steps, n_generated, max_tokens, response) ==
    IF n_generated < max_tokens
    THEN LET st         == StepAt(steps, n_generated + 1)
             next_token == sample_token(tg, st.logits)
             h1         == Log(h, "sample_token", next_token)
             piece      == llama_token_to_piece(next_token)
             response1  == IF Len(piece) > 0 THEN response \o piece ELSE response
             h2         == Log(h1, "llama_decode", next_token)
             h3         == Log(h2, "llama_decode_failed", next_token)
         IN  IF ~st.decode_ok
             THEN [h |-> h3, response |-> response1]
             ELSE IF next_token = llama_vocab_eos
             THEN [h |-> h2, response |-> response1]
             ELSE GenLoop_eos_late(h2, tg, steps, n_generated + 1, max_tokens,
                                   response1)
    ELSE [h |-> h, response |-> response]

RECURSIVE GenLoop_append_after_decode(_, _, _, _, _, _)
\* the loop that appends the text of a token after its llama_decode succeeded
GenLoop_append_after_decode(h, tg, steps, n_generated, max_tokens, response) ==
    IF n_generated < max_tokens
    THEN LET st         == steps[n_generated + 1]
             next_token == sample_token(tg, st.logits)
             h1         == Log(h, "sample_token", next_token)
             piece      == llama_token_to_piece(next_token)
             response1  == IF Len(piece) > 0 THEN response \o piece ELSE response
             h2         == Log(h1, "llama_decode", next_token)
             h3         == Log(h2, "llama_decode_failed", next_token)
         IN  IF next_token = llama_vocab_eos
             THEN [h |-> h1, response |-> response]
             ELSE IF ~st.decode_ok
             THEN [h |-> h3, response |-> response]
             ELSE GenLoop_append_after_decode(h2, tg, steps, n_generated + 1,
                                              max_tokens, response1)
    ELSE [h |-> h, response |-> response]

RECURSIVE GenLoop(_, _, _, _, _, _)
\* the while loop of generate_with_llama: [h, response]
GenLoop(h, tg, steps, n_generated, max_tokens, response) ==
    IF n_generated < max_tokens
    THEN LET st         == steps[n_generated + 1]
             next_token == sample_token(tg, st.logits)
             h1         == Log(h, "sample_token", next_token)
             piece      == llama_token_to_piece(next_token)
             response1  == IF Len(piece) > 0 THEN response \o piece ELSE response
             h2         == Log(h1, "llama_decode", next_token)
             h3         == Log(h2, "llama_decode_failed", next_token)
         IN  IF next_token = llama_vocab_eos
             THEN [h |-> h1, response |-> response]
             ELSE IF ~st.decode_ok
             THEN [h |-> h3, response |-> response1]
             ELSE GenLoop(h2, tg, steps, n_generated + 1, max_tokens, response1)
    ELSE [h |-> h, response |-> response]

\* generate_with_llama that creates a context on every call
generate_with_llama_always_creates(h, tg, prompt, max_tokens, sc) ==
    IF tg.m_data.llama_model = NULL
    THEN GenResult(tg, h, "Error: llama model not loaded", FALSE)
    ELSE
    LET c   == llama_init_from_model(h, tg.m_data.llama_model, sc.ctx_ok)
        tg1 == [tg EXCEPT !.m_data.llama_context = c.ctx]
        need == Len(prompt) + 2
        h1  == Log(c.h, "llama_tokenize",
                   IF sc.tok = "ok" THEN Len(prompt) + 1 ELSE -need)
        h2  == IF sc.tok = "retry_ok" THEN Log(h1, "llama_tokenize", need)
               ELSE IF sc.tok = "fail" THEN Log(h1, "llama_tokenize", -need - 1)
               ELSE h1
        h3  == Log(h2, "llama_decode_prompt", IF sc.pdec_ok THEN 0 ELSE 1)
        lp  == GenLoop(h3, tg1, sc.steps, 0, max_tokens, "")
    IN  IF c.ctx = NULL
        THEN GenResult(tg1, c.h, "Error: Failed to create llama context", FALSE)
        ELSE IF sc.tok = "throw"
        THEN GenResult(tg1, h1, "std::bad_alloc", TRUE)
        ELSE IF sc.tok = "fail"
        THEN GenResult(tg1, h2, "Error: Failed to tokenize prompt", FALSE)
        ELSE IF ~sc.pdec_ok
        THEN GenResult(tg1, h3, "Error: Failed to process prompt", FALSE)
        ELSE GenResult(tg1, lp.h, lp.response, FALSE)

\* TextGenerator::generate_with_llama
generate_with_llama(h, tg, prompt, max_tokens, sc) ==
    IF tg.m_data.llama_model = NULL
    THEN GenResult(tg, h, "Error: llama model not loaded", FALSE)
    ELSE
    LET c   == IF tg.m_data.llama_context = NULL
               THEN llama_init_from_model(h, tg.m_data.llama_model, sc.ctx_ok)
               ELSE [h |-> h, ctx |-> tg.m_data.llama_context]
        tg1 == [tg EXCEPT !.m_data.llama_context = c.ctx]
        need == Len(prompt) + 2
        h1  == Log(c.h, "llama_tokenize",
                   IF sc.tok = "ok" THEN Len(prompt) + 1 ELSE -need)
        h2  == IF sc.tok = "retry_ok" THEN Log(h1, "llama_tokenize", need)
               ELSE IF sc.tok = "fail" THEN Log(h1, "llama_tokenize", -need - 1)
               ELSE h1
        h3  == Log(h2, "llama_decode_prompt", IF sc.pdec_ok THEN 0 ELSE 1)
        lp  == GenLoop(h3, tg1, sc.steps, 0, max_tokens, "")
    IN  IF c.ctx = NULL
        THEN GenResult(tg1, c.h, "Error: Failed to create llama context", FALSE)
        ELSE IF sc.tok = "throw"
        THEN GenResult(tg1, h1, "std::bad_alloc", TRUE)
        ELSE IF sc.tok = "fail"
        THEN GenResult(tg1, h2, "Error: Failed to tokenize prompt", FALSE)
        ELSE IF ~sc.pdec_ok
        THEN GenResult(tg1, h3, "Error: Failed to process prompt", FALSE)
        ELSE GenResult(tg1, lp.h, lp.response, FALSE)

\* generate that always runs the backend path
generate_no_fallback(h, tg, prompt, max_tokens, sc) ==
    IF ~tg.m_loaded
    THEN GenResult(tg, h, "Error: Model not loaded", FALSE)
    ELSE LET r == generate_with_llama(h, tg, prompt, max_tokens, sc)
         IN  IF r.thrown
             THEN GenResult(r.tg, r.h, "Error during inference: " \o r.ret, FALSE)
             ELSE r

\* generate without the m_loaded check
generate_unchecked(h, tg, prompt, max_tokens, sc) ==
    IF tg.m_data.use_pattern_fallback \/ tg.m_data.llama_model = NULL
    THEN GenResult(tg, Log(h, "generate_pattern_response", NULL),
                   generate_pattern_response(prompt), FALSE)
    ELSE LET r == generate_with_llama(h, tg, prompt, max_tokens, sc)
         IN  IF r.thrown
             THEN GenResult(r.tg, r.h, "Error during inference: " \o r.ret, FALSE)
             ELSE r

\* generate that only tests the flag, not the native model
generate_flag_only(h, tg, prompt, max_tokens, sc) ==
    IF ~tg.m_loaded
    THEN GenResult(tg, h, "Error: Model not loaded", FALSE)
    ELSE IF tg.m_data.use_pattern_fallback
    THEN GenResult(tg, Log(h, "generate_pattern_response", NULL),
                   generate_pattern_response(prompt), FALSE)
    ELSE LET r == generate_with_llama(h, tg, prompt, max_tokens, sc)
         IN  IF r.thrown
             THEN GenResult(r.tg, r.h, "Error during inference: " \o r.ret, FALSE)
             ELSE r

\* generate whose fallback answer is cut to max_tokens characters
generate_truncates(h, tg, prompt, max_tokens, sc) ==
    IF ~tg.m_loaded
    THEN GenResult(tg, h, "Error: Model not loaded", FALSE)
    ELSE IF tg.m_data.use_pattern_fallback \/ tg.m_data.llama_model = NULL
    THEN LET text == generate_pattern_response(prompt)
         IN  GenResult(tg, Log(h, "generate_pattern_response", NULL),
                       SubSeq(text, 1, Min(Len(text), Max(0, max_tokens))),
                       FALSE)
    ELSE LET r == generate_with_llama(h, tg, prompt, max_tokens, sc)
         IN  IF r.thrown
             THEN GenResult(r.tg, r.h, "Error during inference: " \o r.ret, FALSE)
             ELSE r

\* TextGenerator::generate
generate(h, tg, prompt, max_tokens, sc) ==
    IF ~tg.m_loaded
    THEN GenResult(tg, h, "Error: Model not loaded", FALSE)
    ELSE IF tg.m_data.use_pattern_fallback \/ tg.m_data.llama_model = NULL
    THEN GenResult(tg, Log(h, "generate_pattern_response", NULL),
                   generate_pattern_response(prompt), FALSE)
    ELSE LET r == generate_with_llama(h, tg, prompt, max_tokens, sc)
         IN  IF r.thrown
             THEN GenResult(r.tg, r.h, "Error during inference: " \o r.ret, FALSE)
             ELSE r

----------------------------------------------------------------------------
(* tokenizer.cpp: the fallback tokenizer.  m_vocabulary is the tuple of    *)
(* the vocabulary strings; id t is its element t + 1.                       *)

\* Tokenizer::Tokenizer() = default: an empty vocabulary
Tokenizer_ctor == << >>

\* tokenizer.cpp:85-87
special_tokens == <<"<PAD>", "<UNK>", "<BOS>", "<EOS>", "<MASK>">>

\* tokenizer.cpp:90-100
common_words ==
    <<"the", "a", "an", "and", "or", "but", "in", "on", "at", "to", "for", "of", "with", "by",
      "i", "you", "he", "she", "it", "we", "they", "me", "him", "her", "us", "them",
      "is", "are", "was", "were", "be", "been", "being", "have", "has", "had", "do", "does", "did",
      "will", "would", "could", "should", "may", "might", "can", "must",
      "what", "where", "when", "why", "how", "who", "which", "that", "this", "these", "those",
      "yes", "no", "not", "never", "always", "sometimes", "often", "usually", "here", "there",
      "good", "bad", "big", "small", "new", "old", "first", "last", "long", "short", "high", "low",
      "water", "food", "help", "emergency", "safety", "medical", "shelter", "communication",
      "hello", "hi", "thank", "please", "sorry", "welcome", "goodbye">>

\* Tokenizer::create_basic_vocabulary: the vocabulary it leaves
create_basic_vocabulary ==
    special_tokens \o common_words
    \o [i \in 1..Len(Lower) |-> CharAt(Lower, i)]
    \o [i \in 1..Len(Digits) |-> CharAt(Digits, i)]

\* Tokenizer::load_vocabulary on a file that cannot be opened (None) or that
\* holds the given lines: [m_vocabulary, ret]
load_vocabulary(m_vocabulary, vocab_file) ==
    IF vocab_file = None
    THEN [m_vocabulary |-> create_basic_vocabulary, ret |-> TRUE]
    ELSE LET lines == SelectSeq(vocab_file[1], LAMBDA line : line # "")
             \* while (std::getline(file, line) && id < 50000)
             kept  == SubSeq(lines, 1, Min(Len(lines), 50000))
         IN  [m_vocabulary |-> kept, ret |-> kept # << >>]

\* m_token_to_id.find(key) on the map the fill loops of load_vocabulary and
\* create_basic_vocabulary leave beside m_vocabulary: m_token_to_id[s] = id++
\* overwrites, so a string is mapped to the last id that holds it; None is
\* m_token_to_id.end()
m_token_to_id_find(m_vocabulary, key) ==
    LET ids == {i \in DOMAIN m_vocabulary : m_vocabulary[i] = key}
    IN  IF ids = {} THEN None
        ELSE Some((CHOOSE i \in ids : \A j \in ids : j <= i) - 1)

\* std::ispunct in the C locale; the grave accent (0x60), which a string of
\* this module cannot hold, is in no text and left out
Punct == "!\"#$%&'()*+,-./:;<=>?@[\\]^_{|}~"
IsPunct(c) == \E i \in 1..Len(Punct) : CharAt(Punct, i) = c

RECURSIVE RemovePunct(_)
\* s.erase(std::remove_if(s.begin(), s.end(), ispunct), s.end())
RemovePunct(s) ==
    IF Len(s) = 0 THEN ""
    ELSE (IF IsPunct(CharAt(s, 1)) THEN "" ELSE CharAt(s, 1))
         \o RemovePunct(SubSeq(s, 2, Len(s)))

RECURSIVE WordEnd(_, _)
\* iss >> token reads up to the next white space
WordEnd(s, i) ==
    IF i <= Len(s) /\ ~IsSpace(CharAt(s, i)) THEN WordEnd(s, i + 1) ELSE i

RECURSIVE EncodeLoop(_, _, _, _)
\* the while (iss >> token) loop of encode, from the position i of text
EncodeLoop(m_vocabulary, text, i, tokens) ==
    LET b == SkipSpace(text, i)
    IN  IF b > Len(text) THEN tokens
        ELSE LET e           == WordEnd(text, b)
                 token       == SubSeq(text, b, e - 1)
                 lower_token == RemovePunct(ToLowerStr(token))
                 it          == m_token_to_id_find(m_vocabulary, lower_token)
             IN  EncodeLoop(m_vocabulary, text, e,
                            Append(tokens, IF it # None THEN it[1] ELSE 1))

\* Tokenizer::encode: [m_vocabulary, tokens]; an empty vocabulary is replaced
\* by the built-in one before the text is read
encode(m_vocabulary, text) ==
    LET m_vocabulary1 == IF m_vocabulary = << >>
                         THEN create_basic_vocabulary ELSE m_vocabulary
    IN  [m_vocabulary |-> m_vocabulary1,
         tokens       |-> EncodeLoop(m_vocabulary1, text, 1, << >>)]

\* Tokenizer::decode
decode(m_vocabulary, tokens) ==
    LET RECURSIVE Loop(_, _)
        Loop(i, result) ==
            IF i < Len(tokens)
            THEN IF tokens[i + 1] >= 0 /\ tokens[i + 1] < Len(m_vocabulary)
                 THEN LET result1 == result \o m_vocabulary[tokens[i + 1] + 1]
                      IN  Loop(i + 1, IF i < Len(tokens) - 1
                                      THEN result1 \o " " ELSE result1)
                 ELSE Loop(i + 1, result)
            ELSE result
    IN  Loop(0, "")

----------------------------------------------------------------------------
(* model_interface.cpp: the C facade.  w is the state the facade works on: *)
(* [g_model, objs, h].                                                      *)

\* operator new: the lowest address not in use
NewAddress(heap) ==
    CHOOSE a \in 1..(Cardinality(DOMAIN heap) + 1) :
        /\ a \notin DOMAIN heap
        /\ \A b \in 1..(a - 1) : b \in DOMAIN heap

\* std::make_unique<TextGenerator>() assigned to g_model
make_unique_TextGenerator(w) ==
    LET a == NewAddress(w.objs)
    IN  [g_model |-> a,
         objs    |-> [x \in DOMAIN w.objs \cup {a} |->
                        IF x = a THEN TextGenerator_ctor ELSE w.objs[x]],
         h       |-> Log(w.h, "new TextGenerator", a)]

\* cleanup_model that drops the pointer without destroying the engine
cleanup_model_release(w) == [w EXCEPT !.g_model = NULL]

\* cleanup_model
cleanup_model(w) ==
    IF w.g_model # NULL
    THEN [g_model |-> NULL,
          objs    |-> [x \in DOMAIN w.objs \ {w.g_model} |-> w.objs[x]],
          h       |-> Log(TextGenerator_dtor(w.h, w.objs[w.g_model]),
                          "delete TextGenerator", w.g_model)]
    ELSE w

\* what constructing std::string from a null char* does: libstdc++ throws
\* std::logic_error, other libraries dereference the null pointer
NullPathOutcomes == {"logic_error", "crash"}

\* what releasing a handle a second time does: the allocator goes on with
\* a damaged heap, or the process is ended
DoubleFreeOutcomes == {"continue", "crash"}

\* init_model without the teardown of the engine it replaces
init_model_keeps_old(w, model_path, env, ub) ==
    LET w2 == make_unique_TextGenerator(w)
        r  == load_model(w2.h, w2.objs[w2.g_model], model_path[1], env)
    IN  IF model_path = None
        THEN [w |-> w2, ret |-> -1, crashed |-> ub # "logic_error"]
        ELSE [w |-> [w2 EXCEPT !.objs[w2.g_model] = r.tg, !.h = r.h],
              ret |-> IF r.ret THEN 0 ELSE -1,
              crashed |-> FALSE]

\* init_model: [w, ret, crashed]
init_model(w, model_path, env, ub) ==
    LET w1 == IF w.g_model # NULL THEN cleanup_model(w) ELSE w
        w2 == make_unique_TextGenerator(w1)
        \* return g_model->load_model(model_path) ? 0 : -1, r being what
        \* load_model returned
        ReturnLoad(r) == [w |-> [w2 EXCEPT !.objs[w2.g_model] = r.tg, !.h = r.h],
                      ret |-> IF r.ret THEN 0 ELSE -1,
                      crashed |-> FALSE]
    IN  IF w1.h.misuse # w.h.misuse /\ ub = "crash"
        THEN \* the teardown released a handle that was not live
             [w |-> w1, ret |-> -1, crashed |-> TRUE]
        ELSE IF env = "engine_throw"
        THEN \* make_unique throws after the teardown: catch, return -1
             [w |-> [w1 EXCEPT !.h = Log(w1.h, "bad_alloc", NULL)],
              ret |-> -1, crashed |-> FALSE]
        ELSE IF model_path = None
        THEN IF ub = "logic_error"
             THEN [w |-> w2, ret |-> -1, crashed |-> FALSE]
             ELSE [w |-> w2, ret |-> -1, crashed |-> TRUE]
        ELSE IF env = "arg_copy_throw" /\ CopyAllocates(model_path[1])
        THEN \* the argument of load_model cannot be made: catch, return -1
             [w |-> [w2 EXCEPT !.h = Log(w2.h, "bad_alloc", NULL)],
              ret |-> -1, crashed |-> FALSE]
        ELSE ReturnLoad(load_model(w2.h, w2.objs[w2.g_model], model_path[1], env))

\* whether new char[response.length() + 1] gives the buffer or raises
\* std::bad_alloc (model_interface.cpp:38)
AllocOutcomes == {"ok", "throw"}

\* generate_text: [w, ret]
generate_text(w, prompt, max_tokens, sc, alloc) ==
    IF w.g_model = NULL \/ prompt = None
    THEN [w |-> w, ret |-> None]
    ELSE LET \* lines 38-43, r being what generate returned
             ReturnText(r) ==
                 IF alloc = "throw"
                 THEN \* catch (const std::exception&): return nullptr
                      [w |-> [w EXCEPT !.objs[w.g_model] = r.tg,
                                       !.h = Log(r.h, "bad_alloc", NULL)],
                       ret |-> None]
                 ELSE [w |-> [w EXCEPT !.objs[w.g_model] = r.tg, !.h = r.h],
                       ret |-> Some(r.ret)]
         IN  ReturnText(generate(w.h, w.objs[w.g_model], prompt[1], max_tokens, sc))

\* is_model_loaded that only tests the pointer
is_model_loaded_pointer_only(w) == IF w.g_model # NULL THEN 1 ELSE 0

\* is_model_loaded
is_model_loaded(w) ==
    IF w.g_model # NULL /\ is_loaded(w.objs[w.g_model]) THEN 1 ELSE 0

\* set_temperature
set_temperature(w, temperature) ==
    IF w.g_model # NULL
    THEN [w EXCEPT !.objs[w.g_model] = TG_set_temperature(@, temperature)]
    ELSE w

\* set_top_k
set_top_k(w, top_k) ==
    IF w.g_model # NULL
    THEN [w EXCEPT !.objs[w.g_model] = TG_set_top_k(@, top_k)]
    ELSE w

\* set_top_p that creates the engine it misses
set_top_p_creates(w, top_p) ==
    LET w1 == IF w.g_model = NULL THEN make_unique_TextGenerator(w) ELSE w
    IN  [w1 EXCEPT !.objs[w1.g_model] = TG_set_top_p(@, top_p)]

\* set_top_p
set_top_p(w, top_p) ==
    IF w.g_model # NULL
    THEN [w EXCEPT !.objs[w.g_model] = TG_set_top_p(@, top_p)]
    ELSE w

----------------------------------------------------------------------------
(* Inputs of the calls                                                      *)

\* largest max_tokens argument
MaxTokens == 2

Paths == {"model.xyz", "model", "m.GGUF", "m.safetensors", "m.pt"}
PathArgs == {None} \cup {Some(p) : p \in Paths}

Prompts == {"hello", "20-5"}
PromptArgs == {None} \cup {Some(p) : p \in Prompts}

MaxTokensArgs == (-1)..MaxTokens

\* setter arguments of the lifecycle specification: one value in range each
TemperatureArgs == {150}
TopKArgs == {7}
TopPArgs == {50}

\* inputs of the configuration specification: paths that never yield a
\* native model, and setter arguments below, at, inside and above the bounds
ConfigPathArgs == {None, Some("model.xyz"), Some("m.pt")}
\* a file that is read and one that cannot be opened
ConfigEnvs == {"good", "missing"}
WideTemperatureArgs ==
    {NegInf, -5, 5, 10, 11, 70, 150, 200, 201, 250, PosInf, NaN}
WideTopKArgs == {INT_MIN, -1, 0, 1, 2, 40, 100, 101, INT_MAX}
WideTopPArgs == {NegInf, 0, 9, 10, 50, 95, 100, 101, PosInf, NaN}

(* Inputs of the function specification: prompts for the fallback          *)
(* responder and the arithmetic handler, paths for the format test.         *)

\* keywords of the first rule, in several letter cases
EmergencyWords == {"emergency", "danger", "help", "HELP", "Danger", "eMeRgEnCy"}

\* prompts of the other rules, and prompts of no rule
OtherWords ==
    {"water clean", "purify WATER", "water", "medical", "injury", "First Aid",
     "shelter", "protection", "communication", "signal", "contact",
     "hello", "hi", "how are you", "what ai", "what", "programming", "code",
     "calculate", "12+7", "20-5", "xyz"}

\* a keyword of the first rule before and after each other prompt
MixedPrompts ==
    {e \o " " \o w : e \in EmergencyWords, w \in OtherWords}
    \cup {w \o " " \o e : e \in EmergencyWords, w \in OtherWords}

\* operands of the arithmetic prompts
ArithOperands == {0, 5, 7, 12, 20}
ArithOps == {"+", "-"}

\* the text a op b, bare or with blanks around every part
ArithText(a, op, b, blanks) ==
    IF blanks
    THEN " " \o to_string(a) \o " " \o op \o " " \o to_string(b) \o " "
    ELSE to_string(a) \o op \o to_string(b)

ArithPrompts ==
    {ArithText(a, op, b, bl) :
        a \in ArithOperands, op \in ArithOps, b \in ArithOperands,
        bl \in BOOLEAN}

\* operands with a sign, operands at the ends of the range of int, operands
\* that are no numbers, operators without operands, blanks other than the
\* space
EdgePrompts ==
    {"", " ", "abc+def", "12+", "+7", "12+x", "x-1", "+", "-", "1 2+7",
     "1\t2+7", "12\t+\t7", "-5+7", "7+-5", "7--5", "-5-7", "2147483647+1", "2147483647+0", "0-2147483647",
     "2147483647-0", "99999999999+1", "1+99999999999", "calculate 2+2",
     "calculate this", "3+5-2", "this", "maintain", "What is AI?",
     "clean", "purify", "ai", "water shelter", "clean code", "what code",
     "hi water clean", "WATER", "contact what ai",
     "12+7", "12+7", ""}

PurePrompts ==
    EmergencyWords \cup OtherWords \cup MixedPrompts \cup ArithPrompts
    \cup EdgePrompts

PurePaths ==
    {"model.gguf", "model.GGUF", "m.GgUf", "a.b.gguf", "model.gguf.bak",
     "model", ".gguf", "gguf", "model.", "dir.gguf/model", "model.gguf ",
     "m.safetensors", "m.SAFETENSORS", "m.safetensor", "m.bin", "m.BIN",
     "m.binx", "m.pt", "m.PT", "m.pth", "m.Pth", "m.ptx", "m.p", "m.xyz",
     "a.pt.txt", "a.txt.pt", "..pt", "pt", "model.ggu", "mgguf"}

PureInputs == PurePrompts \cup PurePaths

\* logits that make token t the single maximum
OneHot(t) == [i \in 1..NVocab |-> IF i = t + 1 THEN 1 ELSE 0]

Step(logits, decode_ok) == [logits |-> logits, decode_ok |-> decode_ok]

\* the answers of the backend to one loop iteration: a token with text, a
\* second one, a control token, end of sequence, and a failing llama_decode
StepChoices ==
    {Step(OneHot(t), TRUE) : t \in {0, 1, 2, llama_vocab_eos}}
    \cup {Step(OneHot(0), FALSE)}

\* the iteration ends the loop
Terminal(st) ==
    sample_token(TextGenerator_ctor, st.logits) = llama_vocab_eos \/ ~st.decode_ok

Pad(n) == [i \in 1..n |-> Step(OneHot(llama_vocab_eos), TRUE)]

RECURSIVE StepSeqs(_)
\* the backend's answers to a loop of at most n iterations; the answers
\* after the iteration that ends the loop are never asked for
StepSeqs(n) ==
    IF n = 0 THEN {<< >>}
    ELSE {<<c>> \o Pad(n - 1) : c \in {x \in StepChoices : Terminal(x)}}
         \cup {<<c>> \o s : c \in {x \in StepChoices : ~Terminal(x)},
                            s \in StepSeqs(n - 1)}

StepSeqTable == [n \in 0..MaxTokens |-> StepSeqs(n)]

\* the engine would run real inference
UsesBackend(tg) ==
    tg.m_loaded /\ ~tg.m_data.use_pattern_fallback /\ tg.m_data.llama_model # NULL

\* the backend's answers a generate call on engine tg can meet; a tokenizer
\* that needs the retry is followed by a loop that ends at once
Scripts(tg, max_tokens) ==
    LET n == Max(0, max_tokens)
    IN  IF ~UsesBackend(tg) THEN {Script(TRUE, "ok", TRUE, Pad(n))}
        ELSE (IF tg.m_data.llama_context = NULL
              THEN {Script(FALSE, "ok", TRUE, Pad(n))} ELSE {})
             \cup {Script(TRUE, t, TRUE, Pad(n)) : t \in {"fail", "throw", "retry_ok"}}
             \cup {Script(TRUE, t, FALSE, Pad(n)) : t \in {"ok", "retry_ok"}}
             \cup {Script(TRUE, "ok", TRUE, s) : s \in StepSeqTable[n]}

----------------------------------------------------------------------------
(* The state machine: one action per facade function                        *)

World == [g_model |-> g_model, objs |-> objs,
          h |-> [models |-> live_models, contexts |-> live_contexts,
                 misuse |-> misuse, events |-> << >>]]

Call(op, args, ret) == [op |-> op, args |-> args, ret |-> ret]

\* the state after a call that left w
Commit(w, call) ==
    /\ g_model' = w.g_model
    /\ objs' = w.objs
    /\ live_models' = w.h.models
    /\ live_contexts' = w.h.contexts
    /\ misuse' = w.h.misuse
    /\ events' = w.h.events
    /\ last' = call

Init ==
    /\ g_model = NULL
    /\ objs = << >>
    /\ live_models = {}
    /\ live_contexts = {}
    /\ misuse = {}
    /\ events = << >>
    /\ last = Call("start", << >>, << >>)
    /\ init_hist = None
    /\ crashed = FALSE
    /\ tokenizer = Tokenizer_ctor

\* the process has ended: nothing of it is left
Crash(call) ==
    /\ crashed' = TRUE
    /\ g_model' = NULL
    /\ objs' = << >>
    /\ live_models' = {}
    /\ live_contexts' = {}
    /\ misuse' = misuse
    /\ events' = << >>
    /\ last' = call
    /\ init_hist' = None
    /\ tokenizer' = tokenizer

InitModelOn(path_args, envs) ==
    /\ ~crashed
    /\ \E model_path \in path_args, env \in envs,
          ub \in NullPathOutcomes \cup DoubleFreeOutcomes :
         /\ model_path = None => env = "good"
         /\ \E r \in {init_model(World, model_path, env, ub)} :
               /\ ub \in (IF r.crashed THEN {"crash"}
                          ELSE IF model_path = None THEN {"logic_error"}
                          ELSE {"continue"})
               /\ IF r.crashed
                  THEN Crash(Call("init_model", <<model_path, env>>, << >>))
                  ELSE /\ Commit(r.w, Call("init_model", <<model_path, env>>,
                                           <<r.ret>>))
                       /\ init_hist' = Some([path |-> model_path,
                                             env |-> env, ret |-> r.ret])
                       /\ crashed' = FALSE
                       /\ tokenizer' = tokenizer

CleanupModel ==
    /\ ~crashed
    /\ \E ub \in DoubleFreeOutcomes :
         LET w1 == cleanup_model(World)
         IN  IF w1.h.misuse # misuse /\ ub = "crash"
             THEN \* the teardown released a handle that was not live
                  Crash(Call("cleanup_model", << >>, << >>))
             ELSE /\ ub = "continue"
                  /\ Commit(w1, Call("cleanup_model", << >>, << >>))
                  /\ init_hist' = None
                  /\ crashed' = FALSE
                  /\ tokenizer' = tokenizer

GenerateTextOn(max_tokens_args, allocs) ==
    /\ ~crashed
    /\ \E prompt \in PromptArgs, max_tokens \in max_tokens_args,
          alloc \in allocs :
         /\ alloc = "throw" => (g_model # NULL /\ prompt # None)
         /\ \E sc \in (IF g_model = NULL \/ prompt = None
                       THEN {Script(TRUE, "ok", TRUE, << >>)}
                       ELSE Scripts(objs[g_model], max_tokens)) :
               \E r \in {generate_text(World, prompt, max_tokens, sc, alloc)} :
                  Commit(r.w, Call("generate_text", <<prompt, max_tokens>>,
                                   r.ret))
    /\ UNCHANGED <<init_hist, crashed, tokenizer>>

IsModelLoaded ==
    /\ ~crashed
    /\ Commit(World, Call("is_model_loaded", << >>, <<is_model_loaded(World)>>))
    /\ UNCHANGED <<init_hist, crashed, tokenizer>>

SetTemperatureOn(temperature_args) ==
    /\ ~crashed
    /\ \E temperature \in temperature_args :
         Commit(set_temperature(World, temperature),
                Call("set_temperature", <<temperature>>, << >>))
    /\ UNCHANGED <<init_hist, crashed, tokenizer>>

SetTopKOn(top_k_args) ==
    /\ ~crashed
    /\ \E top_k \in top_k_args :
         Commit(set_top_k(World, top_k), Call("set_top_k", <<top_k>>, << >>))
    /\ UNCHANGED <<init_hist, crashed, tokenizer>>

SetTopPOn(top_p_args) ==
    /\ ~crashed
    /\ \E top_p \in top_p_args :
         Commit(set_top_p(World, top_p), Call("set_top_p", <<top_p>>, << >>))
    /\ UNCHANGED <<init_hist, crashed, tokenizer>>

(* The lifecycle specification: every path and every answer of the         *)
(* backend, one setter argument each, allocations that succeed.             *)
Next ==
    \/ InitModelOn(PathArgs, Envs)
    \/ CleanupModel
    \/ GenerateTextOn(MaxTokensArgs, {"ok"})
    \/ IsModelLoaded
    \/ SetTemperatureOn(TemperatureArgs)
    \/ SetTopKOn(TopKArgs)
    \/ SetTopPOn(TopPArgs)

Spec == Init /\ [][Next]_vars

(* The configuration specification: the same facade with the wide setter   *)
(* arguments, on paths that never yield a native model and on files that    *)
(* are read or cannot be opened.                                            *)
NextConfig ==
    \/ InitModelOn(ConfigPathArgs, ConfigEnvs)
    \/ CleanupModel
    \/ GenerateTextOn(MaxTokensArgs, {"ok"})
    \/ IsModelLoaded
    \/ SetTemperatureOn(WideTemperatureArgs)
    \/ SetTopKOn(WideTopKArgs)
    \/ SetTopPOn(WideTopPArgs)

SpecConfig == Init /\ [][NextConfig]_vars

(* The allocation specification: the facade with the allocations of the    *)
(* program that can fail, on a path std::string copies through the heap in *)
(* every library, on one it keeps inside the string object, and on a        *)
(* metadata-only format.                                                    *)
NextAlloc ==
    \/ InitModelOn({Some("models/naseer-7b-q4_0.gguf"), Some("m.GGUF"),
                    Some("m.pt")},
                   {"good", "missing"} \cup AllocFailures)
    \/ CleanupModel
    \/ GenerateTextOn({1}, AllocOutcomes)
    \/ IsModelLoaded

SpecAlloc == Init /\ [][NextAlloc]_vars

(* The function specification: the functions that keep no state, applied   *)
(* to an input drawn at the start.  last holds the input and the result.    *)
InitPure ==
    /\ g_model = NULL
    /\ objs = << >>
    /\ live_models = {}
    /\ live_contexts = {}
    /\ misuse = {}
    /\ events = << >>
    /\ \E x \in PureInputs : last = Call("start", <<x>>, << >>)
    /\ init_hist = None
    /\ crashed = FALSE
    /\ tokenizer = Tokenizer_ctor

\* the state after a function without state returned ret on the input
Apply(op, ret) ==
    /\ last' = Call(op, last.args, <<ret>>)
    /\ UNCHANGED <<g_model, objs, live_models, live_contexts, misuse, events,
                   init_hist, crashed, tokenizer>>

GeneratePatternResponse ==
    Apply("generate_pattern_response", generate_pattern_response(last.args[1]))

HandleBasicMath ==
    Apply("handle_basic_math", handle_basic_math(last.args[1]))

IsSupportedFormat ==
    Apply("is_supported_format", is_supported_format(last.args[1]))

GetFileExtension ==
    Apply("get_file_extension", get_file_extension(last.args[1]))

NextPure ==
    \/ GeneratePatternResponse
    \/ HandleBasicMath
    \/ IsSupportedFormat
    \/ GetFileExtension

SpecPure == InitPure /\ [][NextPure]_vars

(* The sampling specification: sample_token applied to a logit vector on   *)
(* an engine whose configuration the setters have changed.                  *)

\* the values of one logit: numbers and the NaN a broken model gives
LogitValues == {-1, 0, 1, NaN}

\* the logit vectors of a vocabulary of NVocab tokens
LogitVectors == [1..NVocab -> LogitValues]

\* engines with the default configuration and with configurations stored by
\* the setters, at and between their bounds
SamplingConfigs ==
    {TextGenerator_ctor}
    \cup {TG_set_top_p(TG_set_top_k(TG_set_temperature(TextGenerator_ctor, t),
                                    k), p) :
            t \in {10, 200}, k \in {1, 2}, p \in {10, 100}}

InitSampling ==
    /\ g_model = NULL
    /\ objs = << >>
    /\ live_models = {}
    /\ live_contexts = {}
    /\ misuse = {}
    /\ events = << >>
    /\ \E tg \in SamplingConfigs, logits \in LogitVectors :
          last = Call("start", <<tg, logits>>, << >>)
    /\ init_hist = None
    /\ crashed = FALSE
    /\ tokenizer = Tokenizer_ctor

SampleToken ==
    Apply("sample_token", sample_token(last.args[1], last.args[2]))

NextSampling == SampleToken

SpecSampling == InitSampling /\ [][NextSampling]_vars

(* The tokenizer specification: one Tokenizer object, from its             *)
(* construction, under load_vocabulary, encode and decode in any order.     *)

\* the longest sequence of ids
MaxIds == 3

\* vocabulary files: one that cannot be opened, an empty one, one of three
\* entries and an empty line, one that holds a string twice
VocabFiles == {None, Some(<< >>), Some(<<"alpha", "", "beta", "gamma">>),
               Some(<<"hi", "hello", "hi">>)}

\* the vocabularies a tokenizer can hold
Vocabularies ==
    {Tokenizer_ctor}
    \cup {load_vocabulary(Tokenizer_ctor, f).m_vocabulary : f \in VocabFiles}

\* ids below, inside and above the vocabularies
TokenIds == {-1, 0, 2, Len(special_tokens), Len(create_basic_vocabulary) - 1,
             Len(create_basic_vocabulary)}

TokenSeqs == UNION {[1..n -> TokenIds] : n \in 0..MaxIds}

\* texts: empty, white space only, words of the vocabularies in both cases
\* and with punctuation, strings held twice, unknown words
EncodeTexts ==
    {"", " \t", "hello world!", "Hello, World!", "a", "hi", "alpha BETA",
     " gamma\talpha ", "<UNK>", "the !!! water", "x1"}

InitTokenizer ==
    /\ g_model = NULL
    /\ objs = << >>
    /\ live_models = {}
    /\ live_contexts = {}
    /\ misuse = {}
    /\ events = << >>
    /\ last = Call("start", << >>, << >>)
    /\ init_hist = None
    /\ crashed = FALSE
    /\ tokenizer = Tokenizer_ctor

\* a call of the tokenizer: what it leaves in m_vocabulary and what it returns
TokenizerCall(m_vocabulary, call) ==
    /\ tokenizer' = m_vocabulary
    /\ last' = call
    /\ UNCHANGED <<g_model, objs, live_models, live_contexts, misuse, events,
                   init_hist, crashed>>

LoadVocabulary ==
    \E vocab_file \in VocabFiles :
        LET r == load_vocabulary(tokenizer, vocab_file)
        IN  TokenizerCall(r.m_vocabulary,
                          Call("load_vocabulary", <<vocab_file>>, <<r.ret>>))

Encode ==
    \E text \in EncodeTexts :
        LET r == encode(tokenizer, text)
        IN  TokenizerCall(r.m_vocabulary, Call("encode", <<text>>, <<r.tokens>>))

Decode ==
    \E tokens \in TokenSeqs :
        TokenizerCall(tokenizer,
                      Call("decode", <<tokens>>, <<decode(tokenizer, tokens)>>))

NextTokenizer ==
    \/ LoadVocabulary
    \/ Encode
    \/ Decode

SpecTokenizer == InitTokenizer /\ [][NextTokenizer]_vars

TypeOK ==
    /\ g_model \in {NULL} \cup DOMAIN objs
    /\ crashed \in BOOLEAN
    /\ \A a \in DOMAIN objs :
         /\ objs[a].m_loaded \in BOOLEAN
         /\ objs[a].m_data.use_pattern_fallback \in BOOLEAN

----------------------------------------------------------------------------
(* Properties                                                               *)

HasEngine == g_model # NULL
Engine == objs[g_model]

\* the events of the last call with one of the given names
EventsNamed(names) == {i \in DOMAIN events : events[i].ev \in names}

\* the last call logged e
Occurs(e) == \E i \in DOMAIN events : events[i] = e

TeardownEvents == {"llama_free", "llama_model_free", "delete TextGenerator"}
SetupEvents == {"new TextGenerator", "llama_backend_init",
                "llama_model_load_from_file"}

\* the events of the last call that tear down what existed before it: every
\* release but that of a model the same call loaded (the loader's temporary
\* releases the model of a load that failed after the backend gave it)
OldTeardown ==
    {i \in EventsNamed(TeardownEvents) :
        ~(/\ events[i].ev = "llama_model_free"
          /\ \E k \in 1..(i - 1) :
                events[k] = Ev("llama_model_load_from_file", events[i].arg))}

\* the last call was op and returned (it did not end the process)
Returned(op) == last.op = op /\ ~crashed

\* C1: at most one engine and at most one native model are live after any
\* sequence of calls, the facade's pointer is the only engine there is, and
\* an init_model that replaces an engine finishes tearing the old one down
\* (context, model, object) before it creates and loads the new one.
C1_SingleEngine ==
    /\ Cardinality(DOMAIN objs) <= 1
    /\ Cardinality(live_models) <= 1
    /\ Cardinality(live_contexts) <= 1
    /\ DOMAIN objs = (IF HasEngine THEN {g_model} ELSE {})
    /\ live_models = (IF HasEngine THEN {Engine.m_data.llama_model} \ {NULL} ELSE {})
    /\ last.op = "init_model" =>
         \A i \in OldTeardown, j \in EventsNamed(SetupEvents) : i < j

\* an init_model replaced an engine that held a native model and a context
\* by an engine with a newly loaded native model
C1_Witness ==
    /\ Returned("init_model")
    /\ EventsNamed({"llama_free"}) # {}
    /\ EventsNamed({"llama_model_free"}) # {}
    /\ EventsNamed({"delete TextGenerator"}) # {}
    /\ HasEngine /\ Engine.m_data.llama_model # NULL

\* the load behind an init_model call fails, by kind of path and environment
LoadFails(model_path, env) ==
    LET ext == get_file_extension(model_path)
    IN  \/ ext \notin {".gguf", ".safetensors", ".bin", ".pt", ".pth"}
        \/ env \in {"missing", "escape_throw"}
        \/ ext = ".gguf" /\ env # "good"
        \/ ext = ".safetensors" /\ env \in {"short_huge", "huge_header"}

MetadataOnly(model_path) ==
    get_file_extension(model_path) \in {".safetensors", ".bin", ".pt", ".pth"}

\* C2 as stated: init_model on a non-null path returns 0, and for an
\* unrecognized extension, a metadata-only format, a file that cannot be
\* opened or a null model from the backend the engine is loaded with
\* use_pattern_fallback = true; -1 is returned only for a null path (the
\* invalid argument, whose std::string throws) or an allocation that throws
\* during setup.
C2_Original ==
    Returned("init_model") =>
        /\ last.ret = <<-1>> =>
             (last.args[1] = None \/ last.args[2] \in AllocFailures)
        /\ last.args[1] # None =>
             /\ last.ret = <<0>>
             /\ (LoadFails(last.args[1][1], last.args[2])
                 \/ MetadataOnly(last.args[1][1])) =>
                   /\ HasEngine /\ Engine.m_loaded
                   /\ Engine.m_data.use_pattern_fallback

\* C2 amended: init_model on a non-null path returns 0 and leaves a loaded
\* engine whatever the load did; whenever the load fails the engine has
\* use_pattern_fallback = true and no native model; a metadata-only format
\* whose file is read successfully leaves use_pattern_fallback = false and
\* no native model; -1 is returned only for a null path (the invalid
\* argument, whose std::string throws) or an allocation that throws during
\* setup.
C2_InitAlwaysLoads ==
    Returned("init_model") =>
        /\ last.ret = <<-1>> =>
             (last.args[1] = None \/ last.args[2] \in AllocFailures)
        /\ last.args[1] # None =>
             /\ last.ret = <<0>>
             /\ HasEngine /\ Engine.m_loaded
             /\ LoadFails(last.args[1][1], last.args[2]) =>
                   /\ Engine.m_data.use_pattern_fallback
                   /\ Engine.m_data.llama_model = NULL
             /\ (MetadataOnly(last.args[1][1])
                 /\ ~LoadFails(last.args[1][1], last.args[2])) =>
                   /\ ~Engine.m_data.use_pattern_fallback
                   /\ Engine.m_data.llama_model = NULL

\* init_model returned 0 although the backend gave no model for a .gguf path
C2_Witness ==
    /\ Returned("init_model")
    /\ last.args = <<Some("m.GGUF"), "missing">>
    /\ last.ret = <<0>>
    /\ Engine.m_loaded /\ Engine.m_data.use_pattern_fallback

\* C3: generate_text returns null exactly when no engine exists or the
\* prompt is null; with an engine (loaded or not) and a prompt it returns a
\* string.
C3_NullOnlyWithoutEngineOrPrompt ==
    Returned("generate_text") =>
        (last.ret = None <=> (~HasEngine \/ last.args[1] = None))

\* what generate_text does: it returns null exactly when no engine exists,
\* the prompt is null, or the allocation of the result fails
C3_NullAlsoOnFailedAllocation ==
    Returned("generate_text") =>
        (last.ret = None <=> (\/ ~HasEngine
                              \/ last.args[1] = None
                              \/ Occurs(Ev("bad_alloc", NULL))))

\* generate_text returned null on an engine and a prompt
C3_NullWithEngineAndPrompt ==
    /\ Returned("generate_text")
    /\ HasEngine /\ last.args[1] # None
    /\ last.ret = None

\* generate_text returned a string on the engine an init_model that
\* returned -1 left behind
C3_Witness ==
    /\ Returned("generate_text")
    /\ init_hist # None /\ init_hist[1].ret = -1
    /\ HasEngine /\ ~Engine.m_loaded
    /\ last.args[1] # None
    /\ last.ret # None

NotLoadedText == "Error: Model not loaded"

\* C4: a generate call on an engine whose load never completed returns
\* "Error: Model not loaded" for every prompt and max_tokens, calls neither
\* the fallback responder nor the backend, and changes nothing.
C4_NotLoadedSentinel ==
    [][(/\ last'.op = "generate_text"
        /\ last'.args[1] # None
        /\ HasEngine /\ ~Engine.m_loaded)
       => /\ last'.ret = Some(NotLoadedText)
          /\ events' = << >>
          /\ UNCHANGED <<g_model, objs, live_models, live_contexts, misuse,
                         crashed>>]_vars

\* generate_text ran on an engine that was never loaded
C4_Witness ==
    /\ Returned("generate_text")
    /\ HasEngine /\ ~Engine.m_loaded
    /\ last.args = <<Some("hello"), MaxTokens>>
    /\ last.ret = Some(NotLoadedText)

\* the texts the fallback responder hands out
CannedResponses ==
    {EmergencyResponse, WaterResponse, FirstAidResponse, ShelterResponse,
     CommunicationResponse, GreetingResponse, HowAreYouResponse,
     WhatAiResponse, ProgrammingResponse, DefaultResponse}

IsErrorText(t) == Len(t) >= 5 /\ SubSeq(t, 1, 5) = "Error"

\* t is the decimal text of an integer
IsDecimalText(t) ==
    LET body == IF Len(t) > 0 /\ CharAt(t, 1) = "-" THEN SubSeq(t, 2, Len(t)) ELSE t
    IN  Len(body) > 0 /\ \A i \in 1..Len(body) : IsDigit(CharAt(body, i))

\* the engine was made by an init_model on an unrecognized extension that
\* returned 0
AfterUnrecognizedInit ==
    /\ init_hist # None
    /\ init_hist[1].path # None
    /\ get_file_extension(init_hist[1].path[1])
         \notin {".gguf", ".safetensors", ".bin", ".pt", ".pth"}
    /\ init_hist[1].ret = 0

\* C5: after an init_model on an unrecognized extension returned 0, every
\* generate_text with a prompt returns non-empty text of the fallback
\* responder (a canned response or an arithmetic result), never an error
\* string, without touching the backend; "hello" gets the greeting.
C5_FallbackAfterUnrecognized ==
    (Returned("generate_text") /\ last.args[1] # None /\ AfterUnrecognizedInit) =>
        /\ last.ret # None
        /\ last.ret[1] # ""
        /\ ~IsErrorText(last.ret[1])
        /\ last.ret[1] \in CannedResponses \/ IsDecimalText(last.ret[1])
        /\ events = <<Ev("generate_pattern_response", NULL)>>
        /\ last.args[1] = Some("hello") => last.ret = Some(GreetingResponse)

\* generate_text("hello") answered the greeting after init_model("model.xyz")
C5_Witness ==
    /\ Returned("generate_text")
    /\ init_hist # None /\ init_hist[1].path = Some("model.xyz")
    /\ init_hist[1].ret = 0
    /\ last.args[1] = Some("hello")
    /\ last.ret = Some(GreetingResponse)

\* C6: is_model_loaded returns 1 exactly when an engine exists whose load
\* completed, which is exactly between an init_model that returned 0 and the
\* next cleanup_model or init_model; it returns 0 before the first
\* init_model, after cleanup_model and after an init_model that returned -1.
C6_LoadedIffInitSucceeded ==
    /\ (HasEngine /\ Engine.m_loaded) <=> (init_hist # None /\ init_hist[1].ret = 0)
    /\ Returned("is_model_loaded") =>
         last.ret = <<IF init_hist # None /\ init_hist[1].ret = 0 THEN 1 ELSE 0>>

\* is_model_loaded answered 0 while the engine of a failed init_model exists
C6_Witness ==
    /\ Returned("is_model_loaded")
    /\ HasEngine
    /\ init_hist # None /\ init_hist[1].ret = -1
    /\ last.ret = <<0>>

\* is_model_loaded answered 1
C6_WitnessLoaded ==
    /\ Returned("is_model_loaded")
    /\ last.ret = <<1>>

\* C7: cleanup_model always leaves no engine, no native model and no native
\* context and never releases a handle twice; called when no engine exists
\* (in particular right after another cleanup_model) it changes nothing.
C7_CleanupIdempotent ==
    /\ [](Returned("cleanup_model") =>
            /\ g_model = NULL /\ objs = << >>
            /\ live_models = {} /\ live_contexts = {}
            /\ misuse = {})
    /\ [][(last'.op = "cleanup_model" /\ ~HasEngine) =>
            /\ events' = << >>
            /\ UNCHANGED <<g_model, objs, live_models, live_contexts, misuse,
                           crashed>>]_vars

\* cleanup_model ran while no engine existed
C7_Witness ==
    /\ Returned("cleanup_model")
    /\ events = << >>
    /\ g_model = NULL /\ misuse = {}

\* cleanup_model released an engine with a native model and a context
C7_WitnessRelease ==
    /\ Returned("cleanup_model")
    /\ EventsNamed({"llama_free"}) # {}
    /\ EventsNamed({"llama_model_free"}) # {}

\* max(lo, min(hi, x)) on the reals extended by the infinities; for NaN the
\* minimum with hi is hi (fmin, and std::min as it is called)
Clamp(lo, hi, x) ==
    IF x = NaN THEN hi ELSE IF x < lo THEN lo ELSE IF x > hi THEN hi ELSE x

\* C8: with an engine, set_temperature(x) stores max(0.1, min(2.0, x)),
\* set_top_k(k) stores max(1, min(100, k)) and set_top_p(p) stores
\* max(0.1, min(1.0, p)), whatever the input; every engine has temperature
\* in [0.1, 2.0], top_k in [1, 100] and top_p in [0.1, 1.0].
C8_Clamping ==
    /\ \A a \in DOMAIN objs :
         /\ objs[a].m_temperature >= 10 /\ objs[a].m_temperature <= 200
         /\ objs[a].m_top_k >= 1 /\ objs[a].m_top_k <= 100
         /\ objs[a].m_top_p >= 10 /\ objs[a].m_top_p <= 100
    /\ (Returned("set_temperature") /\ HasEngine) =>
         Engine.m_temperature = Clamp(10, 200, last.args[1])
    /\ (Returned("set_top_k") /\ HasEngine) =>
         Engine.m_top_k = Clamp(1, 100, last.args[1])
    /\ (Returned("set_top_p") /\ HasEngine) =>
         Engine.m_top_p = Clamp(10, 100, last.args[1])

\* set_temperature stored the lower bound for an input below it
C8_Witness ==
    /\ Returned("set_temperature") /\ HasEngine
    /\ last.args = <<5>>
    /\ Engine.m_temperature = 10

\* set_temperature(NaN) and set_top_k(INT_MIN) stored values in range
C8_WitnessExtremes ==
    /\ HasEngine
    /\ \/ Returned("set_temperature") /\ last.args = <<NaN>>
       \/ Returned("set_top_k") /\ last.args = <<INT_MIN>>

ConfigOf(tg) == <<tg.m_temperature, tg.m_top_k, tg.m_top_p>>
DefaultConfig == <<70, 40, 95>>

\* C9 as stated: the configuration survives the lifecycle calls, so the
\* engine an init_model leaves has the configuration of the engine it
\* replaced.
C9_Original ==
    [][(last'.op = "init_model" /\ HasEngine /\ g_model' # NULL) =>
          ConfigOf(objs'[g_model']) = ConfigOf(Engine)]_vars

\* C9 amended: the configuration belongs to the engine.  A stored value stays
\* in effect across generate_text, is_model_loaded and the other setters
\* until the next cleanup_model or init_model; every init_model leaves an
\* engine with the defaults 0.7, 40, 0.95.
C9_ConfigPerEngine ==
    [][/\ (last'.op = "init_model" /\ g_model' # NULL) =>
             ConfigOf(objs'[g_model']) = DefaultConfig
       /\ (last'.op \in {"generate_text", "is_model_loaded"} /\ HasEngine) =>
             /\ g_model' = g_model
             /\ ConfigOf(objs'[g_model']) = ConfigOf(Engine)
       /\ (last'.op = "set_temperature" /\ HasEngine) =>
             /\ objs'[g_model'].m_top_k = Engine.m_top_k
             /\ objs'[g_model'].m_top_p = Engine.m_top_p
       /\ (last'.op = "set_top_k" /\ HasEngine) =>
             /\ objs'[g_model'].m_temperature = Engine.m_temperature
             /\ objs'[g_model'].m_top_p = Engine.m_top_p
       /\ (last'.op = "set_top_p" /\ HasEngine) =>
             /\ objs'[g_model'].m_temperature = Engine.m_temperature
             /\ objs'[g_model'].m_top_k = Engine.m_top_k]_vars

\* an engine keeps stored values that differ from every default across a
\* generate_text call
C9_Witness ==
    /\ Returned("generate_text")
    /\ HasEngine
    /\ Engine.m_temperature = 150 /\ Engine.m_top_k = 7 /\ Engine.m_top_p = 50

\* C10: set_temperature, set_top_k and set_top_p called while no engine
\* exists change nothing and create no engine.
C10_SettersNoEngineNoOp ==
    [][(last'.op \in {"set_temperature", "set_top_k", "set_top_p"} /\ ~HasEngine)
       => /\ events' = << >>
          /\ UNCHANGED <<g_model, objs, live_models, live_contexts, misuse,
                         init_hist, crashed>>]_vars

\* a setter ran while no engine existed
C10_Witness ==
    /\ last.op \in {"set_temperature", "set_top_k", "set_top_p"}
    /\ ~HasEngine /\ ~crashed
    /\ objs = << >>

----------------------------------------------------------------------------
(* Properties of the functions without state (SpecPure)                     *)

\* the prompt the fallback responder was last applied to
Responded == last.op = "generate_pattern_response"
Prompt == last.args[1]
Response == last.ret[1]

\* the keyword rules in their priority order: a rule matches when all of
\* need and, unless any is empty, one of any occur in the lower-cased prompt
Rule(need, any, response) == [need |-> need, any |-> any, response |-> response]

RuleTable ==
    << Rule({}, {"emergency", "danger", "help"}, EmergencyResponse),
       Rule({"water"}, {"clean", "purify"}, WaterResponse),
       Rule({}, {"medical", "injury", "first aid"}, FirstAidResponse),
       Rule({}, {"shelter", "protection"}, ShelterResponse),
       Rule({}, {"communication", "signal", "contact"}, CommunicationResponse),
       Rule({}, {"hello", "hi"}, GreetingResponse),
       Rule({}, {"how are you"}, HowAreYouResponse),
       Rule({"what", "ai"}, {}, WhatAiResponse),
       Rule({}, {"programming", "code"}, ProgrammingResponse) >>

RuleMatches(r, lower_prompt) ==
    /\ \A k \in r.need : Has(lower_prompt, k)
    /\ r.any = {} \/ \E k \in r.any : Has(lower_prompt, k)

NoRuleMatches(prompt) ==
    \A i \in DOMAIN RuleTable : ~RuleMatches(RuleTable[i], ToLowerStr(prompt))

\* C11: for every prompt, the empty one included, generate_pattern_response
\* returns non-empty text (a canned response or a decimal number); when no
\* keyword rule matches and the arithmetic handler yields nothing, it
\* returns the default response.
C11_TotalFallback ==
    Responded =>
        /\ Response # ""
        /\ Response \in CannedResponses \/ IsDecimalText(Response)
        /\ (NoRuleMatches(Prompt) /\ handle_basic_math(Prompt) = "") =>
              Response = DefaultResponse

\* the arithmetic handler failed to parse "abc+def" and the responder
\* answered the default response
C11_Witness ==
    /\ Responded
    /\ Prompt = "abc+def"
    /\ Response = DefaultResponse

\* the responder answered the empty prompt
C11_WitnessEmpty ==
    /\ Responded
    /\ Prompt = ""
    /\ Response = DefaultResponse

\* C12: a prompt that contains "emergency", "danger" or "help" in any letter
\* case gets the emergency response, whatever other keywords it contains.
C12_EmergencyFirst ==
    (Responded /\ \E k \in {"emergency", "danger", "help"} :
                     Has(ToLowerStr(Prompt), k)) =>
        Response = EmergencyResponse

\* a prompt with the keywords of the water rule and "HELP" got the emergency
\* response
C12_Witness ==
    /\ Responded
    /\ Prompt = "water clean HELP"
    /\ Response = EmergencyResponse

\* C13 as stated: a prompt whose blank-stripped form is a+b or a-b, with a
\* and b decimal integers, gets the decimal text of the sum or difference
\* ("12+7" gives "19", "20-5" gives "15", the sum of 2147483647 and 1 is
\* 2147483648); "abc+def" gets the default response.
C13_Arithmetic ==
    Responded =>
        /\ \A a \in ArithOperands, b \in ArithOperands, bl \in BOOLEAN :
              /\ Prompt = ArithText(a, "+", b, bl) => Response = to_string(a + b)
              /\ Prompt = ArithText(a, "-", b, bl) => Response = to_string(a - b)
        /\ Prompt = "12+7" => Response = "19"
        /\ Prompt = "20-5" => Response = "15"
        /\ Prompt = "2147483647+1" => Response = "2147483648"
        /\ Prompt = "abc+def" => Response = DefaultResponse

RecognizedExtensions == {".gguf", ".safetensors", ".bin", ".pt", ".pth"}

\* path ends with the suffix, letter case ignored
EndsWithCI(path, suffix) ==
    /\ Len(path) >= Len(suffix)
    /\ ToLowerStr(SubSeq(path, Len(path) - Len(suffix) + 1, Len(path))) = suffix

HasDot(path) == \E i \in 1..Len(path) : CharAt(path, i) = "."

\* C15: is_supported_format returns true exactly for the paths that end, in
\* any letter case, with .gguf, .safetensors, .bin, .pt or .pth (the
\* extension being the text from the last '.' on), and false for every other
\* path, the paths without '.' included.
C15_SupportedFormat ==
    /\ last.op = "is_supported_format" =>
         /\ last.ret[1] <=> \E e \in RecognizedExtensions : EndsWithCI(last.args[1], e)
         /\ ~HasDot(last.args[1]) => ~last.ret[1]
    /\ last.op = "get_file_extension" =>
         /\ ~HasDot(last.args[1]) <=> last.ret[1] = ""
         /\ EndsWithCI(last.args[1], last.ret[1])
         /\ ToLowerStr(last.ret[1]) = last.ret[1]
         /\ \A i \in 2..Len(last.ret[1]) : CharAt(last.ret[1], i) # "."

\* is_supported_format accepted an upper-case extension
C15_Witness ==
    /\ last.op = "is_supported_format"
    /\ last.args = <<"model.GGUF">>
    /\ last.ret = <<TRUE>>

\* is_supported_format rejected a path whose last extension is unknown
C15_WitnessRejected ==
    /\ last.op = "is_supported_format"
    /\ last.args = <<"model.gguf.bak">>
    /\ last.ret = <<FALSE>>

----------------------------------------------------------------------------
(* Properties of the engine's resources and of generation (Spec)            *)

\* the contexts that are live just before event j of a call that started
\* with the contexts ctx0
LiveContextsAt(evs, j, ctx0) ==
    (ctx0 \cup {evs[i].arg : i \in {k \in 1..(j - 1) :
                     evs[k].ev = "llama_init_from_model" /\ evs[k].arg # NULL}})
    \ {evs[i].arg : i \in {k \in 1..(j - 1) : evs[k].ev = "llama_free"}}

\* the models that are live just before event j of a call that started with
\* the models models0
LiveModelsAt(evs, j, models0) ==
    LET RECURSIVE Run(_, _)
        Run(k, live) ==
            IF k >= j THEN live
            ELSE IF evs[k].ev = "llama_model_load_from_file" /\ evs[k].arg # NULL
            THEN Run(k + 1, live \cup {evs[k].arg})
            ELSE IF evs[k].ev = "llama_model_free"
            THEN Run(k + 1, live \ {evs[k].arg})
            ELSE Run(k + 1, live)
    IN  Run(1, models0)

\* C14: whenever a model handle is destroyed (cleanup_model, re-init, end of
\* a load attempt) the context is released before the model: no
\* llama_model_free happens while a context is live, and a live context
\* always has its live model.
C14_ContextBeforeModel ==
    /\ [](live_contexts # {} =>
            /\ HasEngine
            /\ live_contexts = {Engine.m_data.llama_context}
            /\ live_models = {Engine.m_data.llama_model})
    /\ [][\A j \in DOMAIN events' :
            events'[j].ev = "llama_model_free" =>
                /\ events'[j].arg \in LiveModelsAt(events', j, live_models)
                /\ LiveContextsAt(events', j, live_contexts) = {}]_vars

\* cleanup_model released a context and then the model
C14_Witness ==
    /\ Returned("cleanup_model")
    /\ \E i \in DOMAIN events, j \in DOMAIN events :
         /\ i < j
         /\ events[i].ev = "llama_free"
         /\ events[j].ev = "llama_model_free"

\* the loader's temporary released the model of a load that failed after
\* the backend gave it
C14_WitnessLoadAttempt ==
    /\ Returned("init_model")
    /\ last.args[2] = "metadata_throw"
    /\ \E i \in DOMAIN events, j \in DOMAIN events :
         /\ i < j
         /\ events[i].ev = "llama_model_load_from_file"
         /\ events[j] = Ev("llama_model_free", events[i].arg)
    /\ live_models = {}

\* a re-init released the context and then the model of the old engine
C14_WitnessReinit ==
    /\ Returned("init_model")
    /\ \E i \in DOMAIN events, j \in DOMAIN events :
         /\ i < j
         /\ events[i].ev = "llama_free"
         /\ events[j].ev = "llama_model_free"

\* the last call was generate_text with a prompt on an existing engine
Generated == Returned("generate_text") /\ last.args[1] # None /\ HasEngine
GenPrompt == last.args[1][1]
GenMaxTokens == last.args[2]
GenText == last.ret[1]

\* the calls of the backend that real inference makes
BackendEvents ==
    {"llama_init_from_model", "llama_tokenize", "llama_decode_prompt",
     "sample_token", "llama_decode"}

FallbackEvents == <<Ev("generate_pattern_response", NULL)>>

\* the values llama_tokenize returned during the last call, in order
TokenizeReturns ==
    LET RECURSIVE Pick(_)
        Pick(i) == IF i > Len(events) THEN << >>
                   ELSE IF events[i].ev = "llama_tokenize"
                   THEN <<events[i].arg>> \o Pick(i + 1)
                   ELSE Pick(i + 1)
    IN  Pick(1)

ContextCreationFailed == Occurs(Ev("llama_init_from_model", NULL))
TokenizeFailedTwice ==
    Len(TokenizeReturns) = 2 /\ TokenizeReturns[1] < 0 /\ TokenizeReturns[2] < 0
\* the buffer was too small and resizing it raised std::bad_alloc
ResizeThrew == Len(TokenizeReturns) = 1 /\ TokenizeReturns[1] < 0
PromptDecodeFailed == Occurs(Ev("llama_decode_prompt", 1))
PromptProcessed == Occurs(Ev("llama_decode_prompt", 0))

InferenceFailed ==
    \/ ContextCreationFailed
    \/ TokenizeFailedTwice
    \/ ResizeThrew
    \/ PromptDecodeFailed

\* C16 as stated: when generate runs on an engine with a native model and
\* inference fails (context creation, tokenization twice, prompt decode, an
\* exception), the caller gets the fallback responder's text for the prompt.
C16_Original ==
    (Generated /\ UsesBackend(Engine) /\ InferenceFailed) =>
        GenText = generate_pattern_response(GenPrompt)

\* what generate does instead: when it runs on an engine with a native model
\* and inference fails, the fallback responder is not invoked and the caller gets
\* the error string of the failure: "Error: Failed to create llama context",
\* "Error: Failed to tokenize prompt", "Error: Failed to process prompt", or
\* "Error during inference: " followed by the exception's message.
C16_InferenceErrorText ==
    (Generated /\ UsesBackend(Engine) /\ InferenceFailed) =>
        /\ ~Occurs(Ev("generate_pattern_response", NULL))
        /\ GenText \notin CannedResponses
        /\ IsErrorText(GenText)
        /\ ContextCreationFailed => GenText = "Error: Failed to create llama context"
        /\ TokenizeFailedTwice => GenText = "Error: Failed to tokenize prompt"
        /\ PromptDecodeFailed => GenText = "Error: Failed to process prompt"
        /\ ResizeThrew => GenText = "Error during inference: std::bad_alloc"

\* generate_text returned the tokenizer's error string on an engine with a
\* native model
C16_Witness ==
    /\ Generated /\ UsesBackend(Engine)
    /\ TokenizeFailedTwice
    /\ GenText = "Error: Failed to tokenize prompt"

\* generate_text returned the error string of a caught exception
C16_WitnessThrown ==
    /\ Generated /\ UsesBackend(Engine)
    /\ ResizeThrew
    /\ GenText = "Error during inference: std::bad_alloc"

\* the engine was made by an init_model that read a metadata-only format
AfterMetadataOnlyInit ==
    /\ init_hist # None
    /\ init_hist[1].path # None
    /\ MetadataOnly(init_hist[1].path[1])
    /\ ~LoadFails(init_hist[1].path[1], init_hist[1].env)

\* C17: on a loaded engine generate calls the backend exactly when
\* use_pattern_fallback is false and a native model is present; in every
\* other loaded state, also after the load of a metadata-only format (flag
\* false, no native model), it returns the fallback responder's text and
\* calls no backend function.
C17_RealInferenceIff ==
    (Generated /\ Engine.m_loaded) =>
        /\ EventsNamed(BackendEvents) # {} <=>
              (~Engine.m_data.use_pattern_fallback
               /\ Engine.m_data.llama_model # NULL)
        /\ UsesBackend(Engine) => ~Occurs(Ev("generate_pattern_response", NULL))
        /\ ~UsesBackend(Engine) =>
              /\ events = FallbackEvents
              /\ GenText \in CannedResponses \/ IsDecimalText(GenText)
        /\ AfterMetadataOnlyInit =>
              /\ ~Engine.m_data.use_pattern_fallback
              /\ Engine.m_data.llama_model = NULL
              /\ events = FallbackEvents
              /\ live_models = {} /\ live_contexts = {}

\* generate_text answered through the fallback responder after the load of
\* a .pt file that set use_pattern_fallback = false
C17_Witness ==
    /\ Generated /\ Engine.m_loaded
    /\ init_hist # None /\ init_hist[1].path = Some("m.pt")
    /\ init_hist[1].env = "good"
    /\ ~Engine.m_data.use_pattern_fallback
    /\ events = FallbackEvents
    /\ GenText = GreetingResponse

\* generate_text ran real inference
C17_WitnessBackend ==
    /\ Generated /\ UsesBackend(Engine)
    /\ Occurs(Ev("llama_decode_prompt", 0))

ContextErrorText == "Error: Failed to create llama context"

\* C18: no load creates a context; a generate call that runs real inference
\* creates one only when the engine has none, and otherwise reuses the
\* engine's; when the creation fails the call returns the context error,
\* the engine stays loaded with its native model and without a context (so
\* the next call tries again); no other call changes the context.
C18_LazyContext ==
    /\ [](Cardinality(live_contexts) <= 1)
    /\ [][/\ (last'.op = "init_model" /\ g_model' # NULL) =>
               objs'[g_model'].m_data.llama_context = NULL
          /\ (last'.op \in {"is_model_loaded", "set_temperature", "set_top_k",
                             "set_top_p"} /\ HasEngine) =>
               objs'[g_model'].m_data.llama_context = Engine.m_data.llama_context
          /\ (last'.op = "generate_text" /\ last'.args[1] # None
              /\ HasEngine /\ UsesBackend(Engine)) =>
               LET post      == objs'[g_model'].m_data
                   creations == {j \in DOMAIN events' :
                                   events'[j].ev = "llama_init_from_model"}
               IN  /\ g_model' = g_model
                   /\ objs'[g_model'].m_loaded
                   /\ post.llama_model = Engine.m_data.llama_model
                   /\ live_models' = live_models
                   /\ IF Engine.m_data.llama_context # NULL
                      THEN /\ creations = {}
                           /\ post.llama_context = Engine.m_data.llama_context
                           /\ live_contexts' = live_contexts
                      ELSE /\ creations = {1}
                           /\ IF events'[1].arg = NULL
                              THEN /\ events' = <<Ev("llama_init_from_model", NULL)>>
                                   /\ last'.ret = Some(ContextErrorText)
                                   /\ post.llama_context = NULL
                                   /\ live_contexts' = {}
                              ELSE /\ post.llama_context = events'[1].arg
                                   /\ live_contexts' = {events'[1].arg}]_vars

\* a generate call failed to create the context and left the engine loaded
\* with its native model and no context
C18_Witness ==
    /\ Generated /\ UsesBackend(Engine)
    /\ GenText = ContextErrorText
    /\ Engine.m_data.llama_model \in live_models
    /\ Engine.m_data.llama_context = NULL

\* a generate call ran on the context an earlier call created
C18_WitnessReuse ==
    /\ Generated /\ UsesBackend(Engine)
    /\ Engine.m_data.llama_context \in live_contexts
    /\ EventsNamed({"llama_init_from_model"}) = {}
    /\ PromptProcessed

\* the longest text llama_token_to_piece gives for one token
MaxPieceLen ==
    LET lens == {Len(llama_token_to_piece(t)) : t \in 0..(NVocab - 1)}
    IN  CHOOSE m \in lens : \A k \in lens : k <= m

\* C19: after the prompt was processed a generate call samples at most
\* max(0, max_tokens) tokens, appends the text of at most that many tokens
\* and returns; for max_tokens <= 0 it samples nothing and returns "".
C19_BoundedLoop ==
    (Generated /\ UsesBackend(Engine) /\ PromptProcessed) =>
        LET n == Max(0, GenMaxTokens)
        IN  /\ Cardinality(EventsNamed({"sample_token"})) <= n
            /\ Cardinality(EventsNamed({"llama_decode"})) <= n
            /\ Len(GenText) <= n * MaxPieceLen
            /\ GenMaxTokens <= 0 =>
                  /\ EventsNamed({"sample_token", "llama_decode"}) = {}
                  /\ GenText = ""

\* a generate call sampled and appended exactly max_tokens tokens
C19_Witness ==
    /\ Generated /\ UsesBackend(Engine) /\ PromptProcessed
    /\ GenMaxTokens = MaxTokens
    /\ Cardinality(EventsNamed({"sample_token"})) = MaxTokens
    /\ Len(GenText) = MaxTokens

\* a generate call with a negative max_tokens returned the empty string
C19_WitnessNegative ==
    /\ Generated /\ UsesBackend(Engine) /\ PromptProcessed
    /\ GenMaxTokens = -1
    /\ GenText = ""

\* the text of the tokens sampled during the last call, the end-of-sequence
\* token left out
SampledText ==
    LET RECURSIVE Cat(_)
        Cat(i) == IF i > Len(events) THEN ""
                  ELSE IF events[i].ev = "sample_token"
                          /\ events[i].arg # llama_vocab_eos
                  THEN llama_token_to_piece(events[i].arg) \o Cat(i + 1)
                  ELSE Cat(i + 1)
    IN  Cat(1)

\* C20: a sampled end-of-sequence token ends the loop at once: it is the
\* last thing the call does with the backend, it is never fed to
\* llama_decode and its text is not in the output, which is the text of the
\* tokens sampled before it.
C20_StopAtEos ==
    (Generated /\ UsesBackend(Engine)) =>
        /\ \A i \in DOMAIN events :
              events[i] = Ev("sample_token", llama_vocab_eos) => i = Len(events)
        /\ ~Occurs(Ev("llama_decode", llama_vocab_eos))
        /\ PromptProcessed =>
              /\ GenText = SampledText
              /\ \A i \in 1..Len(GenText) : CharAt(GenText, i) # EosPiece

\* the loop stopped at an end-of-sequence token after it had appended the
\* text of another token
C20_Witness ==
    /\ Generated /\ UsesBackend(Engine)
    /\ events # << >>
    /\ events[Len(events)] = Ev("sample_token", llama_vocab_eos)
    /\ Occurs(Ev("sample_token", 0))
    /\ GenText = "a"

\* a llama_decode of a newly sampled token returned nonzero during the last
\* call
DecodeFailed == EventsNamed({"llama_decode_failed"}) # {}

\* the text of the tokens whose llama_decode returned 0 during the last call
DecodedText ==
    LET RECURSIVE Cat(_)
        Cat(i) == IF i > Len(events) THEN ""
                  ELSE IF events[i].ev = "llama_decode"
                          /\ ~(i < Len(events)
                               /\ events[i + 1].ev = "llama_decode_failed")
                  THEN llama_token_to_piece(events[i].arg) \o Cat(i + 1)
                  ELSE Cat(i + 1)
    IN  Cat(1)

\* C21 as stated: when llama_decode of a newly sampled token fails, generate
\* returns without an error message exactly the text of the tokens that were
\* decoded into the context before the failure, and no text of the token
\* whose decode failed.
C21_Original ==
    (Generated /\ UsesBackend(Engine) /\ DecodeFailed) =>
        /\ ~IsErrorText(GenText)
        /\ GenText = DecodedText

\* C21 amended: when llama_decode of a newly sampled token fails, the loop
\* stops there (the failed decode is the last thing the call does, and it
\* fails once), and generate returns without an error message the text
\* appended so far: the text of the tokens decoded before, followed by the
\* text of the token whose decode failed, which was appended before the
\* decode was tried.
C21_DecodeFailureKeepsText ==
    (Generated /\ UsesBackend(Engine) /\ DecodeFailed) =>
        LET n == Len(events)
            t == events[n].arg
        IN  /\ EventsNamed({"llama_decode_failed"}) = {n}
            /\ n >= 3
            /\ events[n - 1] = Ev("llama_decode", t)
            /\ events[n - 2] = Ev("sample_token", t)
            /\ t # llama_vocab_eos
            /\ PromptProcessed
            /\ ~IsErrorText(GenText)
            /\ GenText \notin CannedResponses
            /\ GenText = DecodedText \o llama_token_to_piece(t)
            /\ Engine.m_loaded

\* the decode of the second sampled token failed after the first one was
\* decoded, and the text of both was returned
C21_Witness ==
    /\ Generated /\ UsesBackend(Engine)
    /\ DecodeFailed
    /\ DecodedText = "b"
    /\ events[Len(events)] = Ev("llama_decode_failed", 0)
    /\ GenText = "ba"

\* the keywords of a rule
Keywords(r) == r.need \cup r.any

\* some keyword of the rule occurs in the lower-cased prompt
AnyKeyword(r, lower_prompt) == \E k \in Keywords(r) : Has(lower_prompt, k)

\* C22 as stated: for every rule of the fallback table, a prompt that
\* contains any single keyword of the rule and no keyword of a rule of
\* higher priority gets the response of that rule.
C22_Original ==
    Responded =>
        \A i \in DOMAIN RuleTable :
            (/\ AnyKeyword(RuleTable[i], ToLowerStr(Prompt))
             /\ \A j \in 1..(i - 1) :
                   ~AnyKeyword(RuleTable[j], ToLowerStr(Prompt))) =>
                Response = RuleTable[i].response

\* C22 amended: the response is that of the first rule that matches, where
\* the emergency, first aid, shelter, communication, greeting,
\* self-identification and programming rules match on any one of their
\* keywords, the water rule matches only on "water" together with "clean" or
\* "purify", and the capability rule only on "what" together with "ai"; a
\* prompt with a keyword of the water or capability rule that does not match
\* it goes on to the rules below, and a rule's response is returned for no
\* other prompt.
C22_FirstMatch ==
    Responded =>
        \A i \in DOMAIN RuleTable :
            Response = RuleTable[i].response <=>
                /\ RuleMatches(RuleTable[i], ToLowerStr(Prompt))
                /\ \A j \in 1..(i - 1) :
                      ~RuleMatches(RuleTable[j], ToLowerStr(Prompt))

\* "water" alone did not get the water response
C22_Witness ==
    /\ Responded
    /\ Prompt = "water"
    /\ Response = DefaultResponse

\* "water" with a keyword of the shelter rule went on to that rule
C22_WitnessFallsThrough ==
    /\ Responded
    /\ Prompt = "water shelter"
    /\ Response = ShelterResponse

\* "what" with "ai" got the capability response after no rule above matched
C22_WitnessCapability ==
    /\ Responded
    /\ Prompt = "What is AI?"
    /\ Response = WhatAiResponse

\* sample_token returned on an engine and a logit vector
Sampled == last.op = "sample_token"
SampledOn == last.args[1]
SampledLogits == last.args[2]
SampledToken == last.ret[1]

\* the indices whose logit is a number
NumberIndices == {k \in 0..(NVocab - 1) : SampledLogits[k + 1] # NaN}

\* C23: sample_token returns an index that holds a maximal logit of the
\* whole vector (no logit compares greater than the returned one), the
\* lowest of the indices that hold an equal logit, and the same index under
\* every stored temperature, top_k and top_p.  With NaN logits a comparison
\* is the comparison of float: a NaN at index 0 is returned, a NaN elsewhere
\* is passed over.
C23_GreedyLowestIndex ==
    Sampled =>
        /\ SampledToken \in 0..(NVocab - 1)
        /\ \A k \in 0..(NVocab - 1) :
              ~FGreater(SampledLogits[k + 1], SampledLogits[SampledToken + 1])
        /\ \A k \in 0..(SampledToken - 1) :
              ~FEqual(SampledLogits[k + 1], SampledLogits[SampledToken + 1])
        /\ SampledLogits[1] # NaN =>
              /\ SampledToken \in NumberIndices
              /\ \A k \in NumberIndices :
                    SampledLogits[k + 1] <= SampledLogits[SampledToken + 1]
              /\ \A k \in NumberIndices :
                    k < SampledToken =>
                        SampledLogits[k + 1] < SampledLogits[SampledToken + 1]
        /\ SampledLogits[1] = NaN => SampledToken = 0
        /\ \A tg \in SamplingConfigs :
              sample_token(tg, SampledLogits) = SampledToken

\* with top_k = 1 stored and the maximum at the tokens 1 and 2, token 1 was
\* returned
C23_Witness ==
    /\ Sampled
    /\ SampledOn.m_top_k = 1
    /\ SampledOn.m_temperature = 200
    /\ SampledLogits = <<0, 1, 1>> \o [i \in 1..(NVocab - 3) |-> 0]
    /\ SampledToken = 1

\* every logit is negative and equal: token 0 was returned
C23_WitnessAllEqual ==
    /\ Sampled
    /\ \A k \in 1..NVocab : SampledLogits[k] = -1
    /\ SampledToken = 0

\* a NaN between two numbers was passed over
C23_WitnessNaNPassedOver ==
    /\ Sampled
    /\ SampledLogits = <<1, NaN, 1>> \o [i \in 1..(NVocab - 3) |-> 0]
    /\ SampledToken = 0

\* a NaN at index 0 was returned although numbers follow
C23_WitnessNaNFirst ==
    /\ Sampled
    /\ SampledLogits = <<NaN, 1, 0>> \o [i \in 1..(NVocab - 3) |-> 0]
    /\ SampledToken = 0

\* the engine is loaded and answers through the fallback responder
FallbackMode(tg) == tg.m_loaded /\ ~UsesBackend(tg)

\* the one text of the fallback path for each prompt
FallbackText ==
    [p \in Prompts |-> IF p = "hello" THEN GreetingResponse ELSE "15"]

\* C24: a generate call on an engine in fallback mode returns the text that
\* belongs to its prompt, the same for every max_tokens, every stored
\* temperature, top_k and top_p and every history of calls, and leaves the
\* engine, the engine pointer and the native resources as they were.
C24_FallbackDeterministic ==
    [][(/\ last'.op = "generate_text" /\ ~crashed'
        /\ last'.args[1] # None
        /\ HasEngine /\ FallbackMode(Engine)) =>
            /\ last'.ret = Some(FallbackText[last'.args[1][1]])
            /\ events' = FallbackEvents
            /\ g_model' = g_model
            /\ objs' = objs
            /\ live_models' = live_models
            /\ live_contexts' = live_contexts
            /\ misuse' = misuse]_vars

\* a fallback generate call with max_tokens = -1 on an engine whose three
\* settings were changed returned the difference
C24_Witness ==
    /\ Generated /\ FallbackMode(Engine)
    /\ GenPrompt = "20-5"
    /\ GenMaxTokens = -1
    /\ Engine.m_temperature = 150 /\ Engine.m_top_k = 7 /\ Engine.m_top_p = 50
    /\ GenText = "15"

\* a fallback generate call with the largest max_tokens on an engine with
\* the default settings, made by the load of a .pt file, returned the same
\* text
C24_WitnessDefaultSettings ==
    /\ Generated /\ FallbackMode(Engine)
    /\ ~Engine.m_data.use_pattern_fallback
    /\ GenPrompt = "20-5"
    /\ GenMaxTokens = MaxTokens
    /\ Engine.m_temperature = TextGenerator_ctor.m_temperature
    /\ Engine.m_top_k = TextGenerator_ctor.m_top_k
    /\ Engine.m_top_p = TextGenerator_ctor.m_top_p
    /\ GenText = "15"

\* the native handles the engine refers to
EngineModels ==
    IF HasEngine THEN {Engine.m_data.llama_model} \ {NULL} ELSE {}
EngineContexts ==
    IF HasEngine THEN {Engine.m_data.llama_context} \ {NULL} ELSE {}

\* the positions in evs where the backend gave a handle, and where one was
\* released
Given(evs, name) == {j \in DOMAIN evs : evs[j].ev = name /\ evs[j].arg # NULL}
Released(evs, name) == {j \in DOMAIN evs : evs[j].ev = name}

\* C25: every live native model and context is the engine's and the engine
\* refers to no other (after a call no second handle is left, and none
\* dangles); no handle is released twice or used after its release; each
\* call releases exactly as many handles as its bookkeeping says (live
\* before, plus given, minus live after), at most once each; a model the
\* loader was given ends the call either in the engine, not released, or
\* released once by the loader's temporary and unknown to the engine; after
\* cleanup_model nothing is live.  (A call that ends the process is left
\* out: nothing of the process is left.)
C25_ExclusiveOwnership ==
    /\ [](/\ misuse = {}
          /\ live_models = EngineModels
          /\ live_contexts = EngineContexts
          /\ live_models \cap live_contexts = {}
          /\ Returned("cleanup_model") =>
                live_models = {} /\ live_contexts = {})
    /\ [][crashed' \/
          LET loads  == Given(events', "llama_model_load_from_file")
              mfrees == Released(events', "llama_model_free")
              inits  == Given(events', "llama_init_from_model")
              cfrees == Released(events', "llama_free")
          IN  /\ Cardinality(live_models') =
                    Cardinality(live_models) + Cardinality(loads)
                    - Cardinality(mfrees)
              /\ Cardinality(live_contexts') =
                    Cardinality(live_contexts) + Cardinality(inits)
                    - Cardinality(cfrees)
              /\ \A j \in mfrees :
                    events'[j].arg \in LiveModelsAt(events', j, live_models)
              /\ \A k \in loads :
                    LET m     == events'[k].arg
                        after == {j \in mfrees : j > k /\ events'[j].arg = m}
                    IN  IF m \in live_models'
                        THEN /\ after = {}
                             /\ objs'[g_model'].m_data.llama_model = m
                        ELSE /\ Cardinality(after) = 1
                             /\ objs'[g_model'].m_data.llama_model = NULL]_vars

\* init_model returned 0 with an engine that refers to a model the loader's
\* temporary has released: the copy of model_path threw between the copy of
\* the handles and their nulling
C25_DanglingAfterPathCopyThrow ==
    /\ Returned("init_model")
    /\ last.args[2] = "path_copy_throw"
    /\ last.ret = <<0>>
    /\ Engine.m_data.llama_model # NULL
    /\ Engine.m_data.llama_model \notin live_models
    /\ Occurs(Ev("llama_model_free", Engine.m_data.llama_model))

\* cleanup_model released a model a second time
C25_SecondRelease ==
    /\ Returned("cleanup_model")
    /\ misuse # {}
    /\ \E i \in DOMAIN events :
          events[i].ev = "llama_model_free" /\ events[i].arg \in misuse

\* a native model was released twice only through an engine that a throwing
\* copy of model_path left with a released handle
C25_SecondReleaseOnlyAfterPathCopyThrow ==
    [][(misuse' # misuse /\ ~crashed') =>
          /\ init_hist # None
          /\ init_hist[1].env = "path_copy_throw"
          /\ objs[g_model].m_data.llama_model \in misuse']_vars

\* a re-init released the context and the model of the old engine and handed
\* the newly loaded model to the new engine, which alone refers to it
C25_Witness ==
    /\ Returned("init_model")
    /\ last.args[2] = "good"
    /\ EventsNamed({"llama_free"}) # {}
    /\ EventsNamed({"llama_model_free"}) # {}
    /\ events[Len(events)].ev = "llama_model_load_from_file"
    /\ live_models = {events[Len(events)].arg}
    /\ Engine.m_data.llama_model = events[Len(events)].arg
    /\ live_contexts = {}

\* the loader's temporary released the model it was given when the load
\* failed, after the old engine's context and model had been released
C25_WitnessTemporary ==
    /\ Returned("init_model")
    /\ last.args[2] = "metadata_throw"
    /\ EventsNamed({"llama_free"}) # {}
    /\ Cardinality(EventsNamed({"llama_model_free"})) = 2
    /\ events[Len(events)].ev = "llama_model_free"
    /\ live_models = {} /\ live_contexts = {}
    /\ Engine.m_data.llama_model = NULL

\* decode returned on a vocabulary and a sequence of ids
Decoded == last.op = "decode"
DecodedVocabulary == tokenizer
DecodedIds == last.args[1]
DecodeResult == last.ret[1]

\* the vocabulary strings of the valid ids, in input order
KeptStrings ==
    LET valid == SelectSeq(DecodedIds,
                           LAMBDA t : t >= 0 /\ t < Len(DecodedVocabulary))
    IN  [i \in 1..Len(valid) |-> DecodedVocabulary[valid[i] + 1]]

\* the strings of a tuple with one space between neighbours
JoinWithSpaces(strings) ==
    LET RECURSIVE Cat(_)
        Cat(i) == IF i > Len(strings) THEN ""
                  ELSE IF i = Len(strings) THEN strings[i]
                  ELSE strings[i] \o " " \o Cat(i + 1)
    IN  Cat(1)

\* C26 as stated: decode returns the vocabulary strings of the valid ids in
\* input order with exactly one space between neighbours and none before or
\* after; an id outside the vocabulary adds neither text nor separator.
C26_DecodeJoin ==
    Decoded => DecodeResult = JoinWithSpaces(KeptStrings)

\* what decode returns instead: the joined strings, followed by one space
\* exactly when an id is kept and the last id of the input is not valid
DecodeTrailingSpace ==
    Decoded =>
        LET n       == Len(DecodedIds)
            invalid == n > 0 /\ ~(DecodedIds[n] >= 0
                                  /\ DecodedIds[n] < Len(DecodedVocabulary))
        IN  DecodeResult =
                JoinWithSpaces(KeptStrings)
                \o (IF KeptStrings # << >> /\ invalid THEN " " ELSE "")

====
